---- MODULE Spec2Model ----
(***************************************************************************)
(* Model of tools/create_normative_rules.py: the tag store, the rule       *)
(* store, the cross-reference validator, the JSON export and main(); and   *)
(* of tools/detect_tag_changes.py.                                         *)
(*                                                                         *)
(* A Python str is a sequence of one-character strings, so that regular    *)
(* expressions and prefixes are computed on it.  File names and URLs are   *)
(* only compared for equality and are TLA+ strings.  A value loaded from   *)
(* YAML/JSON is a record [t, s, b, l]: its Python type name, and its       *)
(* payload as a str (s), a bool (b) or a list (l).                         *)
(***************************************************************************)
EXTENDS Integers, Sequences, FiniteSets, TLC

VARIABLES
    pc,                     \* position of main(): load_defs, load_tags, validate, output, exit
    exit_status,            \* -1 while running, else the status passed to sys.exit
    norm_rule_defs,         \* NormativeRuleDefs.norm_rule_defs (definition order)
    tag_map,                \* NormativeTags.tag_map (insertion order)
    warn_if_tags_no_rules,  \* -w
    output_format,          \* "json" or "html"
    tag_fname2url,          \* -tag2url map (a function on the mapped tag file names)
    missing_tag_cnt,        \* validate_defs_and_tags tallies, -1 before validation ran
    bad_norm_rule_name_cnt,
    unref_cnt,
    referenced_tags,
    log,                    \* what error() and info() printed, in order
    output_file,            \* the output file: opened, complete, normative_rules
    adoc_pc,                \* position of the text conversion under way, "idle" if none
    adoc_text,              \* the text passed to it
    adoc_result,            \* its working string, at the end its return value
    adoc_raised,            \* the exception it raised, "" if none
    heap,                   \* the list objects built by NormativeRuleDef.__init__, by address
    rule_lists,             \* per rule of norm_rule_defs: the addresses of its instances and tag_refs
    cur_def_filename,       \* add_file_contents: the file and the entry of the current iteration
    cur_data,
    detect_pc,              \* position of main() of detect_tag_changes, "idle" if not run
    reference_file,         \* the file named by options.reference_file
    current_file,           \* the file named by options.current_file
    update_reference,       \* options.update_reference
    reference_tags,         \* locals of main()
    current_tags,
    changes,
    detect_output,          \* what the run printed, in order
    detect_status           \* -1 while running, else the exit status

\* the state of main() and the state of one text conversion
main_vars == <<pc, exit_status, norm_rule_defs, tag_map, warn_if_tags_no_rules,
               output_format, tag_fname2url, missing_tag_cnt, bad_norm_rule_name_cnt,
               unref_cnt, referenced_tags, log, output_file>>
adoc_vars == <<adoc_pc, adoc_text, adoc_result, adoc_raised>>
fan_vars == <<heap, rule_lists, cur_def_filename, cur_data>>
detect_vars == <<detect_pc, reference_file, current_file, update_reference,
                 reference_tags, current_tags, changes, detect_output, detect_status>>
other_vars == <<fan_vars, detect_vars>>
vars == <<main_vars, adoc_vars, other_vars>>

(***************************************************************************)
(* Bounds of the model.                                                    *)
(***************************************************************************)
MaxRules == 2
MaxTags == 2
MaxNameLen == 3
MaxNameRules == 1
MaxCtorRules == 2

(***************************************************************************)
(* Dynamically typed values.                                               *)
(***************************************************************************)
Val(t, s, b, l) == [t |-> t, s |-> s, b |-> b, l |-> l]
Absent == Val("absent", <<>>, FALSE, <<>>)       \* key not in the dict
None == Val("NoneType", <<>>, FALSE, <<>>)
Str(s) == Val("str", s, FALSE, <<>>)
Bool(b) == Val("bool", <<>>, b, <<>>)
IntVal == Val("int", <<>>, FALSE, <<>>)
List(l) == Val("list", <<>>, FALSE, l)
\* a tag reference record {name: n, context: c}; either key may be Absent
Dict(n, c) == Val("dict", <<>>, FALSE, <<n, c>>)

\* dict.get(key)
Get(v) == IF v.t = "absent" THEN None ELSE v
\* dict.get(key, default)
GetDefault(v, d) == IF v.t = "absent" THEN d ELSE v
\* key in data and data[key] is not None
IsSet(v) == v.t \notin {"absent", "NoneType"}

IsIterable(v) == v.t \in {"list", "str", "dict"}
\* the elements a for loop or list.extend draws from v
Iterate(v) ==
    IF v.t = "list" THEN v.l
    ELSE IF v.t = "str" THEN [i \in 1..Len(v.s) |-> Str(<<v.s[i]>>)]
    ELSE IF v.t = "dict" THEN
        (IF v.l[1].t = "absent" THEN <<>> ELSE <<Str(<<"n","a","m","e">>)>>)
        \o (IF v.l[2].t = "absent" THEN <<>> ELSE <<Str(<<"c","o","n","t","e","x","t">>)>>)
    ELSE <<>>

(***************************************************************************)
(* Global constants.                                                       *)
(***************************************************************************)
NORM_PREFIX == <<"n","o","r","m",":">>

KINDS == { <<"e","x","t","e","n","s","i","o","n">>,
           <<"e","x","t","e","n","s","i","o","n","_","d","e","p","e","n","d","e","n","c","y">>,
           <<"i","n","s","t","r","u","c","t","i","o","n">>,
           <<"c","s","r">>,
           <<"c","s","r","_","f","i","e","l","d">> }
IMPLDEF_CATEGORIES == { <<"W","A","R","L">>, <<"W","L","R","L">> }

Upper == {"A","B","C","D","E","F","G","H","I","J","K","L","M","N","O","P","Q","R","S","T","U","V","W","X","Y","Z"}
Lower == {"a","b","c","d","e","f","g","h","i","j","k","l","m","n","o","p","q","r","s","t","u","v","w","x","y","z"}
Digit == {"0","1","2","3","4","5","6","7","8","9"}

(***************************************************************************)
(* Regular expressions, as re.match evaluates them.                        *)
(***************************************************************************)
\* $ after position k of s: at the end, or just before a newline that ends s
AtDollar(s, k) ==
    \/ k = Len(s)
    \/ k = Len(s) - 1 /\ s[Len(s)] = "\n"

\* re.match(r"^[first][rest]+$", s)
MatchNamePattern(first, rest, s) ==
    /\ Len(s) >= 2
    /\ s[1] \in first
    /\ \E k \in 2..Len(s) :
          /\ \A i \in 2..k : s[i] \in rest
          /\ AtDollar(s, k)

\* re.match(NORM_RULE_NAME_PATTERN, s): ^[a-zA-Z][a-zA-Z0-9_-]+$
NORM_RULE_NAME_PATTERN(s) ==
    MatchNamePattern(Upper \cup Lower, Upper \cup Lower \cup Digit \cup {"_", "-"}, s)

\* re.match(IMPLDEF_NAME_PATTERN, s): ^[A-Z][A-Z0-9_]+$
IMPLDEF_NAME_PATTERN(s) ==
    MatchNamePattern(Upper, Upper \cup Digit \cup {"_"}, s)

\* p occurs in s starting at position i
HasAt(s, i, p) ==
    /\ i >= 1
    /\ i + Len(p) - 1 <= Len(s)
    /\ \A j \in 1..Len(p) : s[i + j - 1] = p[j]

\* str.startswith
StartsWith(s, p) == HasAt(s, 1, p)

\* re.match(r'^https://(www\.)?github\.com/riscv/.+/issues/[0-9]+$', s)
MatchClarificationLink(s) ==
    LET https == <<"h","t","t","p","s",":","/","/">>
        www == <<"w","w","w",".">>
        host == <<"g","i","t","h","u","b",".","c","o","m","/","r","i","s","c","v","/">>
        issues == <<"/","i","s","s","u","e","s","/">>
    IN  /\ HasAt(s, 1, https)
        /\ \E a \in {Len(https) + 1, Len(https) + Len(www) + 1} :
              /\ a = Len(https) + 1 \/ HasAt(s, Len(https) + 1, www)
              /\ HasAt(s, a, host)
              /\ \E m \in (a + Len(host))..Len(s) :      \* last character of .+
                    /\ \A i \in (a + Len(host))..m : s[i] # "\n"
                    /\ HasAt(s, m + 1, issues)
                    /\ \E k \in (m + Len(issues) + 1)..Len(s) :   \* last digit
                          /\ \A i \in (m + Len(issues) + 1)..k : s[i] \in Digit
                          /\ AtDollar(s, k)

(***************************************************************************)
(* What error(), info() and fatal() print.  A message is a record naming   *)
(* its level, its kind and the names and files its text cites.             *)
(***************************************************************************)
Msg(level, kind, name, tag, file, other) ==
    [level |-> level, kind |-> kind, name |-> name, tag |-> tag, file |-> file, other |-> other]

(***************************************************************************)
(* NormativeTag and TagRef.                                                *)
(***************************************************************************)
NormativeTag(name, tag_filename, text) ==
    [name |-> name, tag_filename |-> tag_filename, text |-> text]

\* The outcome of a constructor: err = "" and the object, or the fatal error.
Ok(obj) == [err |-> "", obj |-> <<obj>>]
Fail(kind) == [err |-> kind, obj |-> <<>>]

\* TagRef.__init__(name, context)
TagRef(name, context) ==
    IF name.t # "str" THEN Fail("tagref_name_type")
    ELSE IF context.t # "bool" THEN Fail("tagref_context_type")
    ELSE Ok([name |-> name.s, context |-> context.b])

\* one iteration of "for tag_data in data['tags']"
TagRefOfTagData_DropContext(tag_data) ==
    IF tag_data.t = "str" THEN TagRef(tag_data, Bool(FALSE))
    ELSE IF tag_data.t = "dict" THEN
        IF Get(tag_data.l[1]).t = "NoneType" THEN Fail("tagref_missing_name")
        ELSE TagRef(tag_data.l[1], Bool(FALSE))
    ELSE Fail("tagref_type")
TagRefOfTagData(tag_data) ==
    IF tag_data.t = "str" THEN TagRef(tag_data, Bool(FALSE))
    ELSE IF tag_data.t = "dict" THEN
        IF Get(tag_data.l[1]).t = "NoneType" THEN Fail("tagref_missing_name")
        ELSE TagRef(tag_data.l[1], GetDefault(tag_data.l[2], Bool(FALSE)))
    ELSE Fail("tagref_type")

\* the loop over data["tags"], appending to refs until the first fatal
RECURSIVE TagRefsOfTags(_, _)
TagRefsOfTags(refs, tags_data) ==
    IF tags_data = <<>> THEN Ok(refs)
    ELSE LET r == TagRefOfTagData(Head(tags_data))
         IN  IF r.err # "" THEN Fail(r.err)
             ELSE TagRefsOfTags(Append(refs, r.obj[1]), Tail(tags_data))

\* self.tag_refs as NormativeRuleDef.__init__ builds it from "tag" and "tags"
TagRefsOfData(data) ==
    LET first == IF IsSet(data.tag) THEN TagRef(data.tag, Bool(FALSE)) ELSE Fail("")
        refs == IF IsSet(data.tag) /\ first.err = "" THEN <<first.obj[1]>> ELSE <<>>
    IN  IF IsSet(data.tag) /\ first.err # "" THEN Fail(first.err)
        ELSE IF ~IsSet(data.tags) THEN Ok(refs)
        ELSE IF ~IsIterable(data.tags) THEN Fail("TypeError")
        ELSE TagRefsOfTags(refs, Iterate(data.tags))

\* self.instances as NormativeRuleDef.__init__ builds it from "instance" and "instances"
InstancesOfData(data) ==
    LET first == IF IsSet(data.instance) THEN <<data.instance>> ELSE <<>>
    IN  IF ~IsSet(data.instances) THEN Ok(first)
        ELSE IF ~IsIterable(data.instances) THEN Fail("TypeError")
        ELSE Ok(first \o Iterate(data.instances))

\* check_kind / check_impldef_cat
check_kind(kind) == kind \in KINDS
check_impldef_cat(impldef_cat) == impldef_cat \in IMPLDEF_CATEGORIES

\* "if not self.impldef: fatal" under "if self.impldef_cat is not None"
ImpldefCatAllowed_NoCheck(impldef_cat, impldef) == TRUE
ImpldefCatAllowed(impldef_cat, impldef) ==
    impldef_cat.t = "NoneType" \/ impldef.b

\* "if self.kind is None: if self.instances: fatal"
InstancesAllowed_NoCheck(kind, instances) == TRUE
InstancesAllowed(kind, instances) ==
    kind.t # "NoneType" \/ instances = <<>>

\* the name check at the end of NormativeRuleDef.__init__
NameMatchesPattern_NoCheck(impldef, name) == TRUE
NameMatchesPattern(impldef, name) ==
    IF impldef THEN IMPLDEF_NAME_PATTERN(name) ELSE NORM_RULE_NAME_PATTERN(name)

(***************************************************************************)
(* NormativeRuleDef.__init__(name, def_filename, chapter_name, data):      *)
(* the checks in the order the code makes them; name and chapter_name are  *)
(* str here (checked by the callers' isinstance tests as well).            *)
(***************************************************************************)
NormativeRuleDef(name, def_filename, chapter_name, data) ==
    LET summary == Get(data.summary)
        note == Get(data.note)
        clarification_link == Get(data.clarification_link)
        clarification_text == Get(data.clarification_text)
        description == Get(data.description)
        kind == Get(data.kind)
        impldef == GetDefault(data.impl_def_behavior, Bool(FALSE))
        impldef_cat == Get(data.impl_def_category)
        instances == InstancesOfData(data)
        tag_refs == TagRefsOfData(data)
        OptStr(v) == v.t \in {"NoneType", "str"}
    IN  IF name.t # "str" THEN Fail("name_type")
        ELSE IF chapter_name.t # "str" THEN Fail("chapter_name_type")
        ELSE IF ~OptStr(summary) THEN Fail("summary_type")
        ELSE IF ~OptStr(note) THEN Fail("note_type")
        ELSE IF ~OptStr(clarification_link) THEN Fail("clarification_link_type")
        ELSE IF ~OptStr(clarification_text) THEN Fail("clarification_text_type")
        ELSE IF ~OptStr(description) THEN Fail("description_type")
        ELSE IF ~OptStr(kind) THEN Fail("kind_type")
        ELSE IF kind.t = "str" /\ ~check_kind(kind.s) THEN Fail("kind_enum")
        ELSE IF impldef.t # "bool" THEN Fail("impldef_type")
        ELSE IF ~OptStr(impldef_cat) THEN Fail("impldef_cat_type")
        ELSE IF impldef_cat.t = "str" /\ ~check_impldef_cat(impldef_cat.s) THEN Fail("impldef_cat_enum")
        ELSE IF ~ImpldefCatAllowed(impldef_cat, impldef) THEN Fail("impldef_cat_without_impldef")
        ELSE IF instances.err # "" THEN Fail(instances.err)
        ELSE IF ~InstancesAllowed(kind, instances.obj[1]) THEN Fail("instances_without_kind")
        ELSE IF tag_refs.err # "" THEN Fail(tag_refs.err)
        ELSE IF ~NameMatchesPattern(impldef.b, name.s)
        THEN Fail(IF impldef.b THEN "name_pattern_impldef" ELSE "name_pattern_norm_rule")
        ELSE Ok([name |-> name.s, def_filename |-> def_filename, chapter_name |-> chapter_name.s,
                 summary |-> summary, note |-> note,
                 clarification_link |-> clarification_link,
                 clarification_text |-> clarification_text,
                 description |-> description, kind |-> kind,
                 impldef |-> impldef.b, impldef_cat |-> impldef_cat,
                 instances |-> instances.obj[1], tag_refs |-> tag_refs.obj[1]])

(***************************************************************************)
(* NormativeTags.                                                          *)
(***************************************************************************)
\* NormativeTags.get_tag: the tag in a one-element sequence, or <<>> for None
get_tag(tags, name) ==
    IF \E i \in 1..Len(tags) : tags[i].name = name
    THEN <<tags[CHOOSE i \in 1..Len(tags) : tags[i].name = name]>>
    ELSE <<>>

\* one iteration of the loop of NormativeTags.add_tags: the checks, then the insertion
add_tag_NoDuplicateCheck(tags, tag_filename, name, text) ==
    IF name.t # "str" THEN Fail("tag_name_type")
    ELSE IF text.t # "str" THEN Fail("tag_text_type")
    ELSE Ok(NormativeTag(name.s, tag_filename, text.s))
add_tag(tags, tag_filename, name, text) ==
    IF name.t # "str" THEN Fail("tag_name_type")
    ELSE IF text.t # "str" THEN Fail("tag_text_type")
    ELSE IF get_tag(tags, name.s) # <<>> THEN Fail("duplicate_tag")
    ELSE Ok(NormativeTag(name.s, tag_filename, text.s))

(***************************************************************************)
(* NormativeRuleDefs.                                                      *)
(***************************************************************************)
\* self._defs_by_name.get(name)
defs_by_name(defs, name) ==
    IF \E i \in 1..Len(defs) : defs[i].name = name
    THEN <<defs[CHOOSE i \in 1..Len(defs) : defs[i].name = name]>>
    ELSE <<>>

\* NormativeRuleDefs._add_def: the rule to append, or the fatal error
add_def(defs, name, def_filename, chapter_name, data) ==
    IF name.t # "str" THEN Fail("name_type")
    ELSE IF chapter_name.t # "str" THEN Fail("chapter_name_type")
    ELSE IF defs_by_name(defs, name.s) # <<>> THEN Fail("duplicate_rule")
    ELSE NormativeRuleDef(name, def_filename, chapter_name, data)

\* the loop "for name in names" of add_file_contents: the store when the loop
\* ends or dies, the error and the name it died on
RECURSIVE add_defs(_, _, _, _, _)
add_defs(defs, names, def_filename, chapter_name, data) ==
    IF names = <<>> THEN [err |-> "", defs |-> defs, name |-> None]
    ELSE LET r == add_def(defs, Head(names), def_filename, chapter_name, data)
         IN  IF r.err # "" THEN [err |-> r.err, defs |-> defs, name |-> Head(names)]
             ELSE add_defs(Append(defs, r.obj[1]), Tail(names), def_filename, chapter_name, data)

\* one iteration of the loop "for data in array_data" of add_file_contents
add_file_entry(defs, def_filename, chapter_name, data) ==
    IF chapter_name.t # "str" THEN [err |-> "chapter_name_type", defs |-> defs, name |-> None]
    ELSE IF IsSet(data.name) THEN add_defs(defs, <<data.name>>, def_filename, chapter_name, data)
    ELSE IF IsSet(data.names) THEN
        IF IsIterable(data.names)
        THEN add_defs(defs, Iterate(data.names), def_filename, chapter_name, data)
        ELSE [err |-> "TypeError", defs |-> defs, name |-> None]
    ELSE [err |-> "missing_name", defs |-> defs, name |-> None]

\* the message of the fatal error of an _add_def call that died on name
AddDefMsg(defs, err, name, def_filename) ==
    Msg(IF err = "TypeError" THEN "TRACEBACK" ELSE "ERROR", err,
        IF name.t = "str" THEN name.s ELSE <<>>, <<>>, def_filename,
        IF err = "duplicate_rule" THEN defs_by_name(defs, name.s)[1].def_filename ELSE "")

(***************************************************************************)
(* validate_defs_and_tags.  acc holds the function's locals and what it    *)
(* printed: missing, bad, unref, referenced, out.                          *)
(***************************************************************************)
\* the body of "for tag_ref in d.tag_refs", from reference j on
RECURSIVE ValidateTagRefs_StopAtFirstMissing(_, _, _, _)
ValidateTagRefs_StopAtFirstMissing(acc, d, tags, j) ==
    IF j > Len(d.tag_refs) THEN acc
    ELSE LET tag == get_tag(tags, d.tag_refs[j].name)
         IN  IF tag = <<>>
             THEN [acc EXCEPT !.missing = @ + 1,
                              !.out = Append(@, Msg("ERROR", "missing_tag", d.name,
                                                    d.tag_refs[j].name, d.def_filename, ""))]
             ELSE ValidateTagRefs_StopAtFirstMissing(
                      [acc EXCEPT !.referenced = @ \cup {tag[1].name}], d, tags, j + 1)

RECURSIVE ValidateTagRefs(_, _, _, _)
ValidateTagRefs(acc, d, tags, j) ==
    IF j > Len(d.tag_refs) THEN acc
    ELSE LET tag == get_tag(tags, d.tag_refs[j].name)
             next == IF tag = <<>>
                     THEN [acc EXCEPT !.missing = @ + 1,
                                      !.out = Append(@, Msg("ERROR", "missing_tag", d.name,
                                                            d.tag_refs[j].name, d.def_filename, ""))]
                     ELSE [acc EXCEPT !.referenced = @ \cup {tag[1].name}]
         IN  ValidateTagRefs(next, d, tags, j + 1)

\* the checks of one rule after its tag references: reserved prefix, clarification fields
ValidateDefFields(acc, d) ==
    LET a1 == IF StartsWith(d.name, NORM_PREFIX)
              THEN [acc EXCEPT !.bad = @ + 1,
                               !.out = Append(@, Msg("ERROR", "bad_name", d.name, <<>>, "", ""))]
              ELSE acc
        a2 == IF d.clarification_text.t # "NoneType" /\ d.clarification_link.t = "NoneType"
              THEN [a1 EXCEPT !.out = Append(@, Msg("ERROR", "clarification_text_without_link",
                                                    d.name, <<>>, "", ""))]
              ELSE a1
        a3 == IF d.clarification_link.t # "NoneType" /\ ~MatchClarificationLink(d.clarification_link.s)
              THEN [a2 EXCEPT !.out = Append(@, Msg("ERROR", "clarification_link_pattern",
                                                    d.name, <<>>, "", ""))]
              ELSE a2
    IN  a3

\* the loop "for d in defs.norm_rule_defs", from rule i on
RECURSIVE ValidateDefs(_, _, _, _)
ValidateDefs(acc, defs, tags, i) ==
    IF i > Len(defs) THEN acc
    ELSE ValidateDefs(ValidateDefFields(ValidateTagRefs(acc, defs[i], tags, 1), defs[i]),
                      defs, tags, i + 1)

\* the loop "for tag in tags.get_tags()", from tag k on
RECURSIVE ValidateTags(_, _, _, _)
ValidateTags(acc, tags, warn, k) ==
    IF k > Len(tags) THEN acc
    ELSE LET next == IF tags[k].name \notin acc.referenced
                     THEN [acc EXCEPT !.unref = @ + 1,
                                      !.out = Append(@, Msg(IF warn THEN "INFO" ELSE "ERROR",
                                                            "unreferenced_tag", <<>>, tags[k].name,
                                                            tags[k].tag_filename, ""))]
                     ELSE acc
         IN  ValidateTags(next, tags, warn, k + 1)

\* the summary lines printed before the gate
ValidateSummary(acc, warn) ==
    LET a1 == IF acc.missing > 0
              THEN [acc EXCEPT !.out = Append(@, Msg("ERROR", "missing_tag_total", <<>>, <<>>, "", ""))]
              ELSE acc
        a2 == IF a1.bad > 0
              THEN [a1 EXCEPT !.out = Append(@, Msg("ERROR", "bad_name_total", <<>>, <<>>, "", ""))]
              ELSE a1
        a3 == IF a2.unref > 0
              THEN [a2 EXCEPT !.out = Append(@, Msg(IF warn THEN "INFO" ELSE "ERROR",
                                                    "unreferenced_total", <<>>, <<>>, "", ""))]
              ELSE a2
    IN  a3

\* the condition of the final fatal("Exiting due to errors")
GateFails_IgnoreMissing(missing, bad, unref, warn) ==
    (bad > 0) \/ ((unref > 0) /\ ~warn)
GateFails_IgnoreWarn(missing, bad, unref, warn) ==
    (missing > 0) \/ (bad > 0) \/ (unref > 0)
GateFails(missing, bad, unref, warn) ==
    (missing > 0) \/ (bad > 0) \/ ((unref > 0) /\ ~warn)

\* validate_defs_and_tags up to the gate
validate_defs_and_tags(defs, tags, warn) ==
    LET acc0 == [missing |-> 0, bad |-> 0, unref |-> 0, referenced |-> {}, out |-> <<>>]
    IN  ValidateSummary(ValidateTags(ValidateDefs(acc0, defs, tags, 1), tags, warn, 1), warn)

(***************************************************************************)
(* create_normative_rules_hash.                                            *)
(***************************************************************************)
\* tag_fname2url.get(tag_filename): the URL in a one-element sequence, or <<>>
UrlOf(fname2url, tag_filename) ==
    IF tag_filename \in DOMAIN fname2url THEN <<fname2url[tag_filename]>> ELSE <<>>

\* a key that is set only when the attribute is not None
Optional(v) == IF v.t = "NoneType" THEN Absent ELSE v

\* resolved_tag of one reference, its tag and the URL of the tag's file
ResolvedTag_DropContext(tag_ref, tag, url) ==
    [name |-> tag.name, context |-> FALSE, text |-> tag.text,
     tag_filename |-> tag.tag_filename, stds_doc_url |-> url]
ResolvedTag(tag_ref, tag, url) ==
    [name |-> tag.name, context |-> tag_ref.context, text |-> tag.text,
     tag_filename |-> tag.tag_filename, stds_doc_url |-> url]

\* the loop "for tag_ref in d.tag_refs" from reference j on: the resolved
\* tags, or the fatal error
RECURSIVE ResolveTagRefs(_, _, _, _, _)
ResolveTagRefs(resolved, d, tags, fname2url, j) ==
    IF j > Len(d.tag_refs) THEN [err |-> "", val |-> resolved, msg |-> <<>>]
    ELSE LET tag_ref == d.tag_refs[j]
             tag == get_tag(tags, tag_ref.name)
             url == IF tag = <<>> THEN <<>> ELSE UrlOf(fname2url, tag[1].tag_filename)
         IN  IF tag = <<>>
             THEN [err |-> "export_missing_tag", val |-> <<>>,
                   msg |-> <<Msg("ERROR", "export_missing_tag", d.name, tag_ref.name, d.def_filename, "")>>]
             ELSE IF url = <<>>
             THEN [err |-> "no_url_mapping", val |-> <<>>,
                   msg |-> <<Msg("ERROR", "no_url_mapping", <<>>, tag[1].name, tag[1].tag_filename, "")>>]
             ELSE ResolveTagRefs(
                      Append(resolved, ResolvedTag(tag_ref, tag[1], url[1])),
                      d, tags, fname2url, j + 1)

\* hash_entry of one rule, given its resolved tags
HashEntry(d, resolved) ==
    [name |-> d.name, def_filename |-> d.def_filename, chapter_name |-> d.chapter_name,
     kind |-> Optional(d.kind), impl_def_behavior |-> d.impldef,
     instances |-> IF d.instances # <<>> THEN List(d.instances) ELSE Absent,
     impl_def_category |-> Optional(d.impldef_cat),
     summary |-> Optional(d.summary), note |-> Optional(d.note),
     clarification_text |-> Optional(d.clarification_text),
     clarification_link |-> Optional(d.clarification_link),
     description |-> Optional(d.description),
     tags |-> resolved]

\* the loop "for d in defs.norm_rule_defs" from rule i on
RECURSIVE HashEntries(_, _, _, _, _)
HashEntries(ret, defs, tags, fname2url, i) ==
    IF i > Len(defs) THEN [err |-> "", val |-> ret, msg |-> <<>>]
    ELSE LET r == ResolveTagRefs(<<>>, defs[i], tags, fname2url, 1)
         IN  IF r.err # "" THEN r
             ELSE HashEntries(Append(ret, HashEntry(defs[i], r.val)), defs, tags, fname2url, i + 1)

\* create_normative_rules_hash: ret["normative_rules"], or the fatal error
create_normative_rules_hash(defs, tags, fname2url) ==
    HashEntries(<<>>, defs, tags, fname2url, 1)

(***************************************************************************)
(* output_html: the order of the tables and of their rows.                 *)
(***************************************************************************)
\* the characters by code point (the grave accent, which a TLA+ string cannot
\* hold, is written "BACKTICK")
Ascii ==
    << "\t","\n"," ","!","\"","#","$","%","&","'","(",")","*","+",",","-",
       ".","/","0","1","2","3","4","5","6","7","8","9",":",";","<","=",
       ">","?","@","A","B","C","D","E","F","G","H","I","J","K","L","M",
       "N","O","P","Q","R","S","T","U","V","W","X","Y","Z","[","\\","]",
       "^","_","BACKTICK","a","b","c","d","e","f","g","h","i","j","k","l","m",
       "n","o","p","q","r","s","t","u","v","w","x","y","z","{","|","}",
       "~" >>
CodePoint(c) == CHOOSE i \in 1..Len(Ascii) : Ascii[i] = c

\* a < b for two str
RECURSIVE StrLess(_, _)
StrLess(a, b) ==
    IF b = <<>> THEN FALSE
    ELSE IF a = <<>> THEN TRUE
    ELSE IF Head(a) = Head(b) THEN StrLess(Tail(a), Tail(b))
    ELSE CodePoint(Head(a)) < CodePoint(Head(b))

\* list.sort of a list of str without duplicates
RECURSIVE SortStrs(_)
SortStrs(S) ==
    IF S = {} THEN <<>>
    ELSE LET m == CHOOSE x \in S : \A y \in S \ {x} : StrLess(x, y)
         IN  <<m>> \o SortStrs(S \ {m})

\* list.sort(key=lambda p: p.name) of rules, whose names are distinct
SortByName(rules) ==
    LET names == SortStrs({rules[i].name : i \in 1..Len(rules)})
    IN  [k \in 1..Len(names) |-> rules[CHOOSE i \in 1..Len(rules) : rules[i].name = names[k]]]

\* the concatenation of the sequences of a sequence
RECURSIVE Flatten(_)
Flatten(seqs) == IF seqs = <<>> THEN <<>> ELSE Head(seqs) \o Flatten(Tail(seqs))

\* the rows output_html writes, in order: the chapter tables, the table of
\* implementation-defined rules without category, the category tables, the
\* tables of implementation-defined rules by chapter
HtmlRows(defs) ==
    LET chapter_names == SortStrs({defs[i].chapter_name : i \in 1..Len(defs)})
        InChapter(c) == LET P(d) == d.chapter_name = c IN SelectSeq(defs, P)
        ImplInChapter(c) == LET P(d) == d.chapter_name = c /\ d.impldef IN SelectSeq(defs, P)
        NoCat == LET P(d) == d.impldef /\ d.impldef_cat.t = "NoneType" IN SortByName(SelectSeq(defs, P))
        Cat(c) == LET P(d) == d.impldef /\ d.impldef_cat = Str(c) IN SortByName(SelectSeq(defs, P))
    IN  Flatten([k \in 1..Len(chapter_names) |-> InChapter(chapter_names[k])])
        \o NoCat \o Cat(<<"W","A","R","L">>) \o Cat(<<"W","L","R","L">>)
        \o Flatten([k \in 1..Len(chapter_names) |-> ImplInChapter(chapter_names[k])])

\* html_table_row for the rows from row i on: the names of the rules whose
\* rows were written, and the fatal error that ended the writing, if any
RECURSIVE WriteHtmlRows(_, _, _, _, _)
WriteHtmlRows(written, rows, tags, fname2url, i) ==
    IF i > Len(rows) THEN [err |-> "", val |-> written, msg |-> <<>>]
    ELSE LET r == ResolveTagRefs(<<>>, rows[i], tags, fname2url, 1)
         IN  IF r.err # "" THEN [err |-> r.err, val |-> written, msg |-> r.msg]
             ELSE WriteHtmlRows(Append(written, rows[i].name), rows, tags, fname2url, i + 1)

(***************************************************************************)
(* Adoc2HTML.  A match of a regular expression is the record of the part   *)
(* of the string it consumed, s[from..to], and of its content group,       *)
(* s[first..last].  re.sub replaces the leftmost match, then goes on       *)
(* after it; a lazy quantifier takes the shortest content that lets the    *)
(* rest of the pattern match, a greedy one the longest.                    *)
(***************************************************************************)
\* \s, \w and [0-9a-fA-F]
Whitespace == {" ", "\t", "\n", "\r", "\f"}
WordChar == Upper \cup Lower \cup Digit \cup {"_"}
HexDigit == Digit \cup {"a","b","c","d","e","f","A","B","C","D","E","F"}

Min(S) == CHOOSE x \in S : \A y \in S : x <= y
Max(S) == CHOOSE x \in S : \A y \in S : x >= y

NoMatch == [found |-> FALSE, from |-> 0, to |-> 0, first |-> 0, last |-> 0]
Match(from, to, first, last) ==
    [found |-> TRUE, from |-> from, to |-> to, first |-> first, last |-> last]

\* the content group of a match
Group(s, m) == SubSeq(s, m.first, m.last)

\* transform_func: lambda c: f"<tag>{c}</tag>"
Wrap(tag, c) == <<"<">> \o tag \o <<">">> \o c \o <<"<", "/">> \o tag \o <<">">>

\* (^|\s)d(\S(?:(?!\s).*?(?<!\s))?)d(?=[,;".?!\s]|$) matched at position q.
\* The group (^|\s) is s[from..first-2]; the closing delimiter is at e.
ConstrainedAt(s, d, q) ==
    LET open == IF q = 1 /\ Len(s) >= 1 /\ s[1] = d THEN 1
                ELSE IF q + 1 <= Len(s) /\ s[q] \in Whitespace /\ s[q + 1] = d THEN q + 1
                ELSE 0
        c0 == open + 1
        ends == { e \in (c0 + 1)..Len(s) :
                    /\ s[e] = d
                    /\ s[c0] \notin Whitespace                           \* \S
                    /\ e > c0 + 1 =>
                          /\ s[c0 + 1] \notin Whitespace                  \* (?!\s)
                          /\ \A i \in (c0 + 1)..(e - 1) : s[i] # "\n"     \* .*?
                          /\ s[e - 1] \notin Whitespace                   \* (?<!\s)
                    /\ \/ AtDollar(s, e)                                \* $
                       \/ s[e + 1] \in {",", ";", "\"", ".", "?", "!"} \cup Whitespace }
    IN  IF open = 0 \/ ends = {} THEN NoMatch
        ELSE Match(q, Min(ends), c0, Min(ends) - 1)

\* d{2}(.+?)d{2} matched at position q
UnconstrainedAt_NeedsBoundary(s, d, q) ==
    LET ends == { e \in (q + 3)..(Len(s) - 1) :
                    /\ s[e] = d /\ s[e + 1] = d
                    /\ \A i \in (q + 2)..(e - 1) : s[i] # "\n"
                    /\ q = 1 \/ s[q - 1] \in Whitespace
                    /\ e + 1 = Len(s) \/ s[e + 2] \in Whitespace }
    IN  IF q + 1 <= Len(s) /\ s[q] = d /\ s[q + 1] = d /\ ends # {}
        THEN Match(q, Min(ends) + 1, q + 2, Min(ends) - 1)
        ELSE NoMatch

UnconstrainedAt(s, d, q) ==
    LET ends == { e \in (q + 3)..(Len(s) - 1) :
                    /\ s[e] = d /\ s[e + 1] = d
                    /\ \A i \in (q + 2)..(e - 1) : s[i] # "\n" }
    IN  IF q + 1 <= Len(s) /\ s[q] = d /\ s[q + 1] = d /\ ends # {}
        THEN Match(q, Min(ends) + 1, q + 2, Min(ends) - 1)
        ELSE NoMatch

\* d(\S+?)d matched at position q
ContinuousAt(s, d, q) ==
    LET ends == { e \in (q + 2)..Len(s) :
                    /\ s[e] = d
                    /\ \A i \in (q + 1)..(e - 1) : s[i] \notin Whitespace }
    IN  IF q <= Len(s) /\ s[q] = d /\ ends # {}
        THEN Match(q, Min(ends), q + 1, Min(ends) - 1)
        ELSE NoMatch

\* the position of the leftmost match, 0 if there is none
Leftmost(starts) == IF starts = {} THEN 0 ELSE Min(starts)

RECURSIVE convert_nested(_)
RECURSIVE ConstrainedSub(_, _, _, _)
RECURSIVE UnconstrainedSub(_, _, _, _)
RECURSIVE ContinuousSub(_, _, _, _)

\* re.sub(pattern, replacer, text) of constrained_format_pattern, from p on
ConstrainedSub(s, d, tag, p) ==
    LET q == Leftmost({ i \in p..Len(s) : ConstrainedAt(s, d, i).found })
        m == ConstrainedAt(s, d, q)
    IN  IF q = 0 THEN SubSeq(s, p, Len(s))
        ELSE SubSeq(s, p, m.first - 2)          \* the text before, and prefix
             \o Wrap(tag, convert_nested(Group(s, m)))
             \o ConstrainedSub(s, d, tag, m.to + 1)

\* constrained_format_pattern(text, delimiter, True, lambda c: f"<tag>{c}</tag>")
constrained_format_pattern(text, delimiter, tag) == ConstrainedSub(text, delimiter, tag, 1)

\* re.sub(pattern, replacer, text) of unconstrained_format_pattern, from p on
UnconstrainedSub(s, d, tag, p) ==
    LET q == Leftmost({ i \in p..Len(s) : UnconstrainedAt(s, d, i).found })
        m == UnconstrainedAt(s, d, q)
    IN  IF q = 0 THEN SubSeq(s, p, Len(s))
        ELSE SubSeq(s, p, m.from - 1)
             \o Wrap(tag, convert_nested(Group(s, m)))
             \o UnconstrainedSub(s, d, tag, m.to + 1)

\* unconstrained_format_pattern(text, delimiter, True, lambda c: f"<tag>{c}</tag>")
unconstrained_format_pattern(text, delimiter, tag) == UnconstrainedSub(text, delimiter, tag, 1)

\* re.sub(pattern, replacer, text) of continuous_format_pattern, from p on
ContinuousSub(s, d, tag, p) ==
    LET q == Leftmost({ i \in p..Len(s) : ContinuousAt(s, d, i).found })
        m == ContinuousAt(s, d, q)
    IN  IF q = 0 THEN SubSeq(s, p, Len(s))
        ELSE SubSeq(s, p, m.from - 1)
             \o Wrap(tag, Group(s, m))
             \o ContinuousSub(s, d, tag, m.to + 1)

\* continuous_format_pattern(text, delimiter, lambda c: f"<tag>{c}</tag>")
continuous_format_pattern(text, delimiter, tag) == ContinuousSub(text, delimiter, tag, 1)

\* the element each delimiter is converted to
BoldTag == <<"b">>
ItalicTag == <<"i">>
CodeTag == <<"c","o","d","e">>
\* the monospace delimiter: one character, written out because the character
\* itself cannot appear in a string of this language
Backtick == "BACKTICK"

convert_unconstrained(text) ==
    unconstrained_format_pattern(
        unconstrained_format_pattern(
            unconstrained_format_pattern(text, "*", BoldTag),
            "_", ItalicTag),
        Backtick, CodeTag)

convert_constrained(text) ==
    constrained_format_pattern(
        constrained_format_pattern(
            constrained_format_pattern(text, "*", BoldTag),
            "_", ItalicTag),
        Backtick, CodeTag)

convert_nested(text) == convert_constrained(convert_unconstrained(text))

convert_superscript(text) == continuous_format_pattern(text, "^", <<"s","u","p">>)
convert_subscript(text) == continuous_format_pattern(text, "~", <<"s","u","b">>)

\* \[\.underline\]#([^#]+)# matched at position q
UnderlineRole == <<"[",".","u","n","d","e","r","l","i","n","e","]","#">>

UnderlineAt_NoRole(s, q) ==
    LET hashes == { e \in (q + 1)..Len(s) : s[e] = "#" }
    IN  IF q <= Len(s) /\ s[q] = "#" /\ hashes # {} /\ Min(hashes) > q + 1
        THEN Match(q, Min(hashes), q + 1, Min(hashes) - 1)
        ELSE NoMatch

UnderlineAt(s, q) ==
    LET c0 == q + Len(UnderlineRole)
        hashes == { e \in c0..Len(s) : s[e] = "#" }
    IN  IF HasAt(s, q, UnderlineRole) /\ hashes # {} /\ Min(hashes) > c0
        THEN Match(q, Min(hashes), c0, Min(hashes) - 1)
        ELSE NoMatch

RECURSIVE UnderlineSub(_, _)
UnderlineSub(s, p) ==
    LET q == Leftmost({ i \in p..Len(s) : UnderlineAt(s, i).found })
        m == UnderlineAt(s, q)
    IN  IF q = 0 THEN SubSeq(s, p, Len(s))
        ELSE SubSeq(s, p, m.from - 1)
             \o <<"<","s","p","a","n"," ","c","l","a","s","s","=","\"","u","n","d","e","r","l","i","n","e","\"",">">>
             \o Group(s, m) \o <<"<","/","s","p","a","n",">">>
             \o UnderlineSub(s, m.to + 1)

convert_underline(text) == UnderlineSub(text, 1)

\* prefix(class+); matched at position q: the prefix, the longest run of
\* characters of the class, and a semicolon right after it
EntityAt(s, prefix, class, q) ==
    LET c0 == q + Len(prefix)
        stops == { e \in c0..Len(s) : s[e] \notin class }
    IN  IF HasAt(s, q, prefix) /\ stops # {} /\ Min(stops) > c0 /\ s[Min(stops)] = ";"
        THEN Match(q, Min(stops), c0, Min(stops) - 1)
        ELSE NoMatch

\* re.sub(prefix(class+);, replacement \1;, text), from p on
RECURSIVE EntitySub(_, _, _, _, _)
EntitySub(s, prefix, class, replacement, p) ==
    LET q == Leftmost({ i \in p..Len(s) : EntityAt(s, prefix, class, i).found })
        m == EntityAt(s, prefix, class, q)
    IN  IF q = 0 THEN SubSeq(s, p, Len(s))
        ELSE SubSeq(s, p, m.from - 1) \o replacement \o Group(s, m) \o <<";">>
             \o EntitySub(s, prefix, class, replacement, m.to + 1)

Amp == <<"&","a","m","p",";">>

convert_extra_amp(text) ==
    EntitySub(
        EntitySub(
            EntitySub(text, Amp, WordChar, <<"&">>, 1),
            Amp \o <<"#">>, Digit, <<"&","#">>, 1),
        Amp \o <<"#","x">>, HexDigit, <<"&","#","x">>, 1)

LT_UNICODE_DECIMAL == 60
GT_UNICODE_DECIMAL == 62

\* the entities table of convert_unicode_names
entities ==
    { <<<<"g","e">>, 8805>>, <<<<"l","e">>, 8804>>, <<<<"n","e">>, 8800>>,
      <<<<"e","q","u","i","v">>, 8801>>,
      <<<<"l","t">>, LT_UNICODE_DECIMAL>>, <<<<"g","t">>, GT_UNICODE_DECIMAL>>,
      <<<<"a","m","p">>, 38>>, <<<<"q","u","o","t">>, 34>>, <<<<"a","p","o","s">>, 39>>,
      <<<<"n","b","s","p">>, 160>>, <<<<"t","i","m","e","s">>, 215>>,
      <<<<"d","i","v","i","d","e">>, 247>>, <<<<"p","l","u","s","m","n">>, 177>>,
      <<<<"d","e","g">>, 176>>, <<<<"m","i","c","r","o">>, 181>>,
      <<<<"p","a","r","a">>, 182>>, <<<<"m","i","d","d","o","t">>, 183>>,
      <<<<"r","a","q","u","o">>, 187>>, <<<<"l","a","q","u","o">>, 171>>,
      <<<<"f","r","a","c","1","2">>, 189>>, <<<<"f","r","a","c","1","4">>, 188>>,
      <<<<"f","r","a","c","3","4">>, 190>>
    }

\* entity_name in entities, and entities[entity_name]
InEntities(name) == \E e \in entities : e[1] = name
EntityCode(name) == (CHOOSE e \in entities : e[1] = name)[2]

\* f"{n}" for an int n >= 0
RECURSIVE Decimal(_)
Decimal(n) ==
    LET digit == <<"0","1","2","3","4","5","6","7","8","9">>[(n % 10) + 1]
    IN  IF n < 10 THEN <<digit>> ELSE Decimal(n \div 10) \o <<digit>>

\* replacer of convert_unicode_names
UnicodeName_DropUnknown(name) ==
    IF InEntities(name) THEN <<"&","#">> \o Decimal(EntityCode(name)) \o <<";">>
    ELSE <<>>

UnicodeName(name) ==
    IF InEntities(name) THEN <<"&","#">> \o Decimal(EntityCode(name)) \o <<";">>
    ELSE <<"&">> \o name \o <<";">>

\* re.sub(r'&(\w+);', replacer, text), from p on
RECURSIVE UnicodeNamesSub(_, _)
UnicodeNamesSub(s, p) ==
    LET q == Leftmost({ i \in p..Len(s) : EntityAt(s, <<"&">>, WordChar, i).found })
        m == EntityAt(s, <<"&">>, WordChar, q)
    IN  IF q = 0 THEN SubSeq(s, p, Len(s))
        ELSE SubSeq(s, p, m.from - 1) \o UnicodeName(Group(s, m))
             \o UnicodeNamesSub(s, m.to + 1)

convert_unicode_names(text) == UnicodeNamesSub(text, 1)

\* the passes of Adoc2HTML.convert, in the order of its statements
Passes_ConstrainedFirst ==
    << "convert_constrained", "convert_unconstrained", "convert_superscript",
       "convert_subscript", "convert_underline", "convert_extra_amp",
       "convert_unicode_names" >>

Passes ==
    << "convert_unconstrained", "convert_constrained", "convert_superscript",
       "convert_subscript", "convert_underline", "convert_extra_amp",
       "convert_unicode_names" >>

\* one statement of convert: result = Adoc2HTML.<pass>(result)
ApplyPass(pass, result) ==
    CASE pass = "convert_unconstrained" -> convert_unconstrained(result)
      [] pass = "convert_constrained" -> convert_constrained(result)
      [] pass = "convert_superscript" -> convert_superscript(result)
      [] pass = "convert_subscript" -> convert_subscript(result)
      [] pass = "convert_underline" -> convert_underline(result)
      [] pass = "convert_extra_amp" -> convert_extra_amp(result)
      [] pass = "convert_unicode_names" -> convert_unicode_names(result)

\* the statements of convert from the k-th on
RECURSIVE ConvertFrom(_, _)
ConvertFrom(result, k) ==
    IF k > Len(Passes) THEN result
    ELSE ConvertFrom(ApplyPass(Passes[k], result), k + 1)

\* Adoc2HTML.convert(text)
convert(text) == ConvertFrom(text, 1)

(***************************************************************************)
(* convert_tags_tables_to_html and extract_tags_table_cells.               *)
(***************************************************************************)
MAX_TABLE_ROWS == 12

\* the row separator of the "tags" backend: one character, written out
Pilcrow == "PILCROW"

\* str.split(sep) for a separator of one character
RECURSIVE Split(_, _)
Split(s, sep) ==
    LET at == { i \in 1..Len(s) : s[i] = sep }
    IN  IF at = {} THEN <<s>>
        ELSE <<SubSeq(s, 1, Min(at) - 1)>> \o Split(SubSeq(s, Min(at) + 1, Len(s)), sep)

\* str.rstrip(chars), str.strip()
RStrip(s, chars) ==
    LET keep == { i \in 1..Len(s) : s[i] \notin chars }
    IN  IF keep = {} THEN <<>> ELSE SubSeq(s, 1, Max(keep))
Strip(s) ==
    LET keep == { i \in 1..Len(s) : s[i] \notin Whitespace }
    IN  IF keep = {} THEN <<>> ELSE SubSeq(s, Min(keep), Max(keep))

extract_tags_table_cells(row) ==
    IF row = <<>> THEN <<>>
    ELSE LET cells == Split(row, "|") IN [k \in 1..Len(cells) |-> Strip(cells[k])]

\* "".join(f"<el>{cell}</el>" for cell in cells)
JoinCells(el, cells) == Flatten([k \in 1..Len(cells) |-> Wrap(el, cells[k])])

\* what the loop of replacer adds for the row of the given index (from 0)
TableRow_NoCap(index, row) ==
    <<"<","t","r",">">> \o JoinCells(<<"t","d">>, extract_tags_table_cells(row))
    \o <<"<","/","t","r",">">>

TableRow(index, row) ==
    IF index < MAX_TABLE_ROWS
    THEN <<"<","t","r",">">> \o JoinCells(<<"t","d">>, extract_tags_table_cells(row))
         \o <<"<","/","t","r",">">>
    ELSE IF index = MAX_TABLE_ROWS
    THEN LET row_cells == extract_tags_table_cells(row)
         IN  <<"<","t","r",">">>
             \o JoinCells(<<"t","d">>, [k \in 1..Len(row_cells) |-> <<".",".",".">>])
             \o <<"<","/","t","r",">">>
    ELSE <<>>

\* replacer of convert_tags_tables_to_html for the groups of a match
TagsTable(group1, group2) ==
    LET heading == RStrip(group1, {"\n"})
        rows == Split(group2, Pilcrow)
        heading_cells == extract_tags_table_cells(heading)
    IN  <<"<","t","a","b","l","e",">">>
        \o (IF heading_cells # <<>>
            THEN <<"<","t","h","e","a","d",">","<","t","r",">">>
                 \o JoinCells(<<"t","h">>, heading_cells)
                 \o <<"<","/","t","r",">","<","/","t","h","e","a","d",">">>
            ELSE <<>>)
        \o <<"<","t","b","o","d","y",">">>
        \o Flatten([k \in 1..Len(rows) |-> TableRow(k - 1, rows[k])])
        \o <<"<","/","t","b","o","d","y",">","<","/","t","a","b","l","e",">">>

\* re.sub(r'(.*?)===\n(.+)\n===', replacer, text, flags=re.DOTALL), from p on:
\* the match starts at p, its first group ends before the first ===\n that
\* a \n=== follows with something in between, its second group ends before
\* the last \n===
RECURSIVE TagsTablesSub(_, _)
TagsTablesSub(s, p) ==
    LET open == <<"=","=","=","\n">>
        close == <<"\n","=","=","=">>
        closes == { b \in p..Len(s) : HasAt(s, b, close) }
        opens == { a \in p..Len(s) : HasAt(s, a, open) /\ \E b \in closes : b >= a + Len(open) + 1 }
    IN  IF opens = {} THEN SubSeq(s, p, Len(s))
        ELSE LET a == Min(opens)
                 b == Max(closes)
             IN  TagsTable(SubSeq(s, p, a - 1), SubSeq(s, a + Len(open), b - 1))
                 \o TagsTablesSub(s, b + Len(close))

convert_tags_tables_to_html(text) == TagsTablesSub(text, 1)

(***************************************************************************)
(* convert_adoc_links_to_html and tag2html_link.  The outcome is the       *)
(* exception raised ("" if none) and the string returned.                  *)
(***************************************************************************)
LT_UNICODE_STR == <<"&","#">> \o Decimal(LT_UNICODE_DECIMAL) \o <<";">>
GT_UNICODE_STR == <<"&","#">> \o Decimal(GT_UNICODE_DECIMAL) \o <<";">>

\* tag2html_link(tag_ref, link_text, target_html_fname) for two strings and
\* a file name that is a string or None
tag2html_link(tag_ref, link_text, target_html_fname) ==
    <<"<","a"," ","h","r","e","f","=","\"">>
    \o (IF target_html_fname.t = "NoneType" THEN <<>> ELSE target_html_fname.s)
    \o <<"#">> \o tag_ref \o <<"\"",">">> \o link_text \o <<"<","/","a",">">>

\* replacer of convert_adoc_links_to_html for the content of a link
LinkReplacer_IgnoreCustomText(link_content, target_html_fname) ==
    LET parts == Split(link_content, ",")
        split_texts == [k \in 1..Len(parts) |-> Strip(parts[k])]
    IN  IF Len(split_texts) = 0
        THEN [raised |-> "ValueError_empty", out |-> <<>>]
        ELSE IF Len(split_texts) \in {1, 2}
        THEN [raised |-> "", out |-> tag2html_link(split_texts[1], split_texts[1], target_html_fname)]
        ELSE [raised |-> "ValueError_too_many_commas", out |-> <<>>]

LinkReplacer(link_content, target_html_fname) ==
    LET parts == Split(link_content, ",")
        split_texts == [k \in 1..Len(parts) |-> Strip(parts[k])]
    IN  IF Len(split_texts) = 0
        THEN [raised |-> "ValueError_empty", out |-> <<>>]
        ELSE IF Len(split_texts) = 1
        THEN [raised |-> "", out |-> tag2html_link(split_texts[1], split_texts[1], target_html_fname)]
        ELSE IF Len(split_texts) = 2
        THEN [raised |-> "", out |-> tag2html_link(split_texts[1], split_texts[2], target_html_fname)]
        ELSE [raised |-> "ValueError_too_many_commas", out |-> <<>>]

\* (<<|&#60;&#60;)(.+?)(>>|&#62;&#62;) matched at position q
LinkAt(s, q) ==
    LET lt2 == LT_UNICODE_STR \o LT_UNICODE_STR
        gt2 == GT_UNICODE_STR \o GT_UNICODE_STR
        c0 == IF HasAt(s, q, <<"<","<">>) THEN q + 2
              ELSE IF HasAt(s, q, lt2) THEN q + Len(lt2)
              ELSE 0
        ends == { e \in (c0 + 1)..Len(s) :
                    /\ HasAt(s, e, <<">",">">>) \/ HasAt(s, e, gt2)
                    /\ \A i \in c0..(e - 1) : s[i] # "\n" }
        e == Min(ends)
    IN  IF c0 = 0 \/ ends = {} THEN NoMatch
        ELSE Match(q, IF HasAt(s, e, <<">",">">>) THEN e + 1 ELSE e + Len(gt2) - 1, c0, e - 1)

\* re.sub(pattern, replacer, text), from p on
RECURSIVE LinksSub(_, _, _)
LinksSub(s, target_html_fname, p) ==
    LET q == Leftmost({ i \in p..Len(s) : LinkAt(s, i).found })
        m == LinkAt(s, q)
        r == LinkReplacer(Group(s, m), target_html_fname)
        rest == LinksSub(s, target_html_fname, m.to + 1)
    IN  IF q = 0 THEN [raised |-> "", out |-> SubSeq(s, p, Len(s))]
        ELSE IF r.raised # "" THEN r
        ELSE IF rest.raised # "" THEN rest
        ELSE [raised |-> "", out |-> SubSeq(s, p, m.from - 1) \o r.out \o rest.out]

convert_adoc_links_to_html(text, target_html_fname) == LinksSub(text, target_html_fname, 1)

\* convert_newlines_to_html: text.replace('\n', '<br>')
convert_newlines_to_html(text) ==
    Flatten([k \in 1..Len(text) |-> IF text[k] = "\n" THEN <<"<","b","r",">">> ELSE <<text[k]>>])

(***************************************************************************)
(* The inputs of the model: command lines, definition entries, tags.       *)
(***************************************************************************)
\* all sequences over S of length at most n
Seqs(S, n) == UNION {[1..k -> S] : k \in 0..n}

DefFiles == {"d1.yaml", "d2.yaml"}
TagFiles == {"t1.json", "t2.json"}
\* chapter_name of each definition file (d1 holds the chapter that sorts last)
ChapterNameOf(def_filename) ==
    IF def_filename = "d1.yaml" THEN Str(<<"c","2">>) ELSE Str(<<"c","1">>)

\* -tag2url: every tag file mapped, or only the first
Fname2UrlMaps ==
    { [f \in S |-> IF f = "t1.json" THEN "https://doc/1" ELSE "https://doc/2"] :
        S \in {TagFiles, {"t1.json"}} }

TagA == <<"n","o","r","m",":","a">>
TagB == <<"n","o","r","m",":","b">>
TagC == <<"n","o","r","m",":","c">>     \* never defined by a tag file
TagNames == {TagA, TagB}
\* a tag text with markup, and the text of an anchor placed before a
\* description-list term (not a string)
TagTexts == { Str(<<"*","h","i","*">>), Dict(Absent, Absent) }

RuleNames == { <<"r","1">>, <<"r","2">> }
GoodLink == <<"h","t","t","p","s",":","/","/","g","i","t","h","u","b",".","c","o","m","/","r","i","s","c","v","/","x","/","i","s","s","u","e","s","/","1">>
BadLink == <<"h","t","t","p","s",":","/","/","g","i","t","h","u","b",".","c","o","m","/","r","i","s","c","v","/","x","/","p","u","l","l","/","1">>

\* an entry of normative_rule_definitions with no key set
BaseEntry ==
    [name |-> Absent, names |-> Absent, summary |-> Absent, note |-> Absent,
     clarification_link |-> Absent, clarification_text |-> Absent, description |-> Absent,
     kind |-> Absent, impl_def_behavior |-> Absent, impl_def_category |-> Absent,
     instance |-> Absent, instances |-> Absent, tag |-> Absent, tags |-> Absent]

\* entries of the runs of main: tag references in every accepted shape,
\* clarification fields, a names list, and an entry without name
DefEntries ==
    { [BaseEntry EXCEPT !.name = Str(n), !.tag = r[1], !.tags = r[2]] :
        n \in RuleNames,
        r \in { <<Absent, Absent>>, <<Str(TagA), Absent>>, <<Absent, List(<<Str(TagB)>>)>>,
                <<Str(TagA), List(<<Dict(Str(TagB), Bool(TRUE))>>)>>,
                <<Absent, List(<<Str(TagC), Str(TagA)>>)>> } }
    \cup
    { [BaseEntry EXCEPT !.name = Str(<<"r","1">>), !.tag = Str(TagA),
                        !.clarification_text = c[1], !.clarification_link = c[2]] :
        c \in { <<Str(<<"w","h","y">>), Absent>>, <<Str(<<"w","h","y">>), Str(GoodLink)>>,
                <<Absent, Str(BadLink)>> } }
    \cup
    { [BaseEntry EXCEPT !.names = List(<<Str(<<"r","1">>), Str(<<"r","2">>)>>), !.tag = Str(TagB)],
      BaseEntry }

\* entries that exercise the field invariants of NormativeRuleDef.__init__
CtorEntries ==
    { [BaseEntry EXCEPT !.name = Str(n), !.impl_def_behavior = b, !.impl_def_category = c,
                        !.kind = k, !.instance = i, !.instances = is] :
        n \in { <<"r","1">>, <<"R","1">> },
        b \in { Absent, Bool(TRUE), Bool(FALSE) },
        c \in { Absent, Str(<<"W","A","R","L">>), Str(<<"X","X">>) },
        k \in { Absent, Str(<<"c","s","r">>), Str(<<"z","z">>) },
        i \in { Absent, Str(<<"v","1">>) },
        is \in { Absent, List(<<>>), List(<<Str(<<"v","2">>)>>), Str(<<"v","3">>) } }

\* entries that exercise the name check
NameAlphabet == {"A", "a", "1", "_", "-", ":", "\n"}
NameEntries ==
    { [BaseEntry EXCEPT !.name = Str(n), !.impl_def_behavior = Bool(b)] :
        n \in Seqs(NameAlphabet, MaxNameLen), b \in BOOLEAN }

(***************************************************************************)
(* main().                                                                 *)
(***************************************************************************)
\* the empty value of TagChanges
NoChanges == [added |-> <<>>, deleted |-> <<>>, modified |-> <<>>]

\* no list object is tracked and detect_tag_changes is not run
OtherIdle ==
    /\ heap = <<>>
    /\ rule_lists = <<>>
    /\ cur_def_filename = ""
    /\ cur_data = BaseEntry
    /\ detect_pc = "idle"
    /\ reference_file = [kind |-> "missing", has_tags |-> FALSE, tags |-> <<>>]
    /\ current_file = [kind |-> "missing", has_tags |-> FALSE, tags |-> <<>>]
    /\ update_reference = FALSE
    /\ reference_tags = <<>>
    /\ current_tags = <<>>
    /\ changes = NoChanges
    /\ detect_output = <<>>
    /\ detect_status = -1

\* main() starts; no text conversion is under way
InitMain ==
    /\ pc = "load_defs"
    /\ exit_status = -1
    /\ norm_rule_defs = <<>>
    /\ tag_map = <<>>
    /\ warn_if_tags_no_rules \in BOOLEAN
    /\ output_format \in {"json", "html"}
    /\ tag_fname2url \in Fname2UrlMaps
    /\ missing_tag_cnt = -1
    /\ bad_norm_rule_name_cnt = -1
    /\ unref_cnt = -1
    /\ referenced_tags = {}
    /\ log = <<>>
    /\ output_file = [opened |-> FALSE, complete |-> FALSE, normative_rules |-> <<>>, rows |-> <<>>]

Init ==
    /\ InitMain
    /\ OtherIdle
    /\ adoc_pc = "idle"
    /\ adoc_text = <<>>
    /\ adoc_result = <<>>
    /\ adoc_raised = ""

\* fatal(msg) after the messages msgs: print and sys.exit(1)
Fatal(msgs) ==
    /\ log' = log \o msgs
    /\ pc' = "exit"
    /\ exit_status' = 1

args == <<warn_if_tags_no_rules, output_format, tag_fname2url>>
tallies == <<missing_tag_cnt, bad_norm_rule_name_cnt, unref_cnt, referenced_tags>>

\* load_definitions dies before add_file_contents: unreadable file, YAML
\* error, missing or ill-typed chapter_name or normative_rule_definitions
LoadDefinitionsFatal(reason) ==
    /\ pc = "load_defs"
    /\ Fatal(<<Msg("ERROR", reason, <<>>, <<>>, "", "")>>)
    /\ UNCHANGED <<norm_rule_defs, tag_map, args, tallies, output_file, adoc_vars, other_vars>>

\* one entry of a definition file goes through add_file_contents
LoadEntry(def_filename, data) ==
    /\ pc = "load_defs"
    /\ LET r == add_file_entry(norm_rule_defs, def_filename, ChapterNameOf(def_filename), data)
       IN  /\ norm_rule_defs' = r.defs
           /\ IF r.err # ""
              THEN Fatal(<<AddDefMsg(r.defs, r.err, r.name, def_filename)>>)
              ELSE UNCHANGED <<pc, exit_status, log>>
    /\ UNCHANGED <<tag_map, args, tallies, output_file, adoc_vars, other_vars>>

AddFileContents(def_filename, data) ==
    /\ Len(norm_rule_defs) < MaxRules
    /\ LoadEntry(def_filename, data)

\* load_definitions returns
FinishLoadDefinitions ==
    /\ pc = "load_defs"
    /\ pc' = "load_tags"
    /\ UNCHANGED <<exit_status, norm_rule_defs, tag_map, args, tallies, log, output_file, adoc_vars, other_vars>>

\* load_tags dies before add_tags: unreadable file, JSON error, no "tags" key
LoadTagsFatal(reason) ==
    /\ pc = "load_tags"
    /\ Fatal(<<Msg("ERROR", reason, <<>>, <<>>, "", "")>>)
    /\ UNCHANGED <<norm_rule_defs, tag_map, args, tallies, output_file, adoc_vars, other_vars>>

\* one tag of a tag file goes through add_tags
AddTags(tag_filename, name, text) ==
    /\ pc = "load_tags"
    /\ Len(tag_map) < MaxTags
    /\ LET r == add_tag(tag_map, tag_filename, name, text)
       IN  IF r.err # ""
           THEN /\ Fatal(<<Msg("ERROR", r.err, <<>>, IF name.t = "str" THEN name.s ELSE <<>>,
                               tag_filename,
                               IF r.err = "duplicate_tag"
                               THEN get_tag(tag_map, name.s)[1].tag_filename ELSE "")>>)
                /\ UNCHANGED tag_map
           ELSE /\ tag_map' = Append(tag_map, r.obj[1])
                /\ UNCHANGED <<pc, exit_status, log>>
    /\ UNCHANGED <<norm_rule_defs, args, tallies, output_file, adoc_vars, other_vars>>

\* load_tags returns
FinishLoadTags ==
    /\ pc = "load_tags"
    /\ pc' = "validate"
    /\ UNCHANGED <<exit_status, norm_rule_defs, tag_map, args, tallies, log, output_file, adoc_vars, other_vars>>

\* validate_defs_and_tags(defs, tags, warn_if_tags_no_rules)
Validate_ErrorInsteadOfFatal ==
    /\ pc = "validate"
    /\ LET acc == validate_defs_and_tags(norm_rule_defs, tag_map, warn_if_tags_no_rules)
       IN  /\ missing_tag_cnt' = acc.missing
           /\ bad_norm_rule_name_cnt' = acc.bad
           /\ unref_cnt' = acc.unref
           /\ referenced_tags' = acc.referenced
           /\ log' = log \o acc.out
           /\ pc' = "output"
           /\ UNCHANGED exit_status
    /\ UNCHANGED <<norm_rule_defs, tag_map, args, output_file, adoc_vars, other_vars>>

Validate ==
    /\ pc = "validate"
    /\ LET acc == validate_defs_and_tags(norm_rule_defs, tag_map, warn_if_tags_no_rules)
       IN  /\ missing_tag_cnt' = acc.missing
           /\ bad_norm_rule_name_cnt' = acc.bad
           /\ unref_cnt' = acc.unref
           /\ referenced_tags' = acc.referenced
           /\ IF GateFails(acc.missing, acc.bad, acc.unref, warn_if_tags_no_rules)
              THEN Fatal(acc.out \o <<Msg("ERROR", "exiting_due_to_errors", <<>>, <<>>, "", "")>>)
              ELSE /\ log' = log \o acc.out
                   /\ pc' = "output"
                   /\ UNCHANGED exit_status
    /\ UNCHANGED <<norm_rule_defs, tag_map, args, output_file, adoc_vars, other_vars>>

\* create_normative_rules_hash, output_json and sys.exit(0); io is what the
\* file system does: the write succeeds, open fails, or write fails after open
OutputJson(io) ==
    /\ pc = "output"
    /\ output_format = "json"
    /\ LET r == create_normative_rules_hash(norm_rule_defs, tag_map, tag_fname2url)
       IN  IF r.err # "" THEN Fatal(r.msg) /\ UNCHANGED output_file
           ELSE IF io = "open_fails"
           THEN Fatal(<<Msg("ERROR", "error_writing", <<>>, <<>>, "", "")>>) /\ UNCHANGED output_file
           ELSE IF io = "write_fails"
           THEN /\ Fatal(<<Msg("ERROR", "error_writing", <<>>, <<>>, "", "")>>)
                /\ output_file' = [output_file EXCEPT !.opened = TRUE]
           ELSE /\ output_file' = [opened |-> TRUE, complete |-> TRUE,
                                   normative_rules |-> r.val, rows |-> <<>>]
                /\ pc' = "exit"
                /\ exit_status' = 0
                /\ UNCHANGED log
    /\ UNCHANGED <<norm_rule_defs, tag_map, args, tallies, adoc_vars, other_vars>>

\* output_html and sys.exit(0): the file is opened first, the rows are
\* written in table order, and a fatal error leaves what was written so far
OutputHtml(io) ==
    /\ pc = "output"
    /\ output_format = "html"
    /\ LET r == WriteHtmlRows(<<>>, HtmlRows(norm_rule_defs), tag_map, tag_fname2url, 1)
       IN  IF io = "open_fails"
           THEN Fatal(<<Msg("ERROR", "error_writing", <<>>, <<>>, "", "")>>) /\ UNCHANGED output_file
           ELSE IF io = "write_fails"
           THEN /\ Fatal(<<Msg("ERROR", "error_writing", <<>>, <<>>, "", "")>>)
                /\ output_file' = [output_file EXCEPT !.opened = TRUE]
           ELSE IF r.err # ""
           THEN /\ Fatal(r.msg)
                /\ output_file' = [output_file EXCEPT !.opened = TRUE, !.rows = r.val]
           ELSE /\ output_file' = [opened |-> TRUE, complete |-> TRUE,
                                   normative_rules |-> <<>>, rows |-> r.val]
                /\ pc' = "exit"
                /\ exit_status' = 0
                /\ UNCHANGED log
    /\ UNCHANGED <<norm_rule_defs, tag_map, args, tallies, adoc_vars, other_vars>>

IoOutcomes == {"ok", "open_fails", "write_fails"}

Next ==
    \/ \E reason \in {"read_error", "missing_chapter_name"} : LoadDefinitionsFatal(reason)
    \/ \E f \in DefFiles, data \in DefEntries : AddFileContents(f, data)
    \/ FinishLoadDefinitions
    \/ \E reason \in {"read_error", "missing_tags_key"} : LoadTagsFatal(reason)
    \/ \E f \in TagFiles, n \in TagNames, t \in TagTexts : AddTags(f, Str(n), t)
    \/ FinishLoadTags
    \/ Validate
    \/ \E io \in IoOutcomes : OutputJson(io)
    \/ \E io \in IoOutcomes : OutputHtml(io)

Spec == Init /\ [][Next]_vars

(***************************************************************************)
(* The rule store under entries that exercise the field invariants, and    *)
(* under entries that exercise the name check.                             *)
(***************************************************************************)
\* a run whose command line is fixed: strict mode, JSON, every tag file mapped
FixedCommandLine ==
    /\ ~warn_if_tags_no_rules
    /\ output_format = "json"
    /\ DOMAIN tag_fname2url = TagFiles

InitStore == Init /\ FixedCommandLine

CtorAddFileContents(def_filename, data) ==
    /\ Len(norm_rule_defs) < MaxCtorRules
    /\ LoadEntry(def_filename, data)

NextCtor == \E f \in DefFiles, data \in CtorEntries : CtorAddFileContents(f, data)

SpecCtor == InitStore /\ [][NextCtor]_vars

NameAddFileContents(def_filename, data) ==
    /\ Len(norm_rule_defs) < MaxNameRules
    /\ LoadEntry(def_filename, data)

NextName == \E data \in NameEntries : NameAddFileContents("d1.yaml", data)

SpecName == InitStore /\ [][NextName]_vars

(***************************************************************************)
(* Adoc2HTML.convert, statement by statement, on texts that exercise the   *)
(* delimiters, the entities, and text without markup.                      *)
(***************************************************************************)
MaxContentLen == 3
MaxPlainLen == 3
MaxEntityTokens == 3

Delimiters == {"*", "_", Backtick}

\* a span: what precedes it, the opening delimiter (single or double), the
\* content, the closing delimiter, what follows it
SpanTextsOf(d) ==
    { pre \o open \o content \o open \o post :
        pre \in {<<>>, <<" ">>, <<"a">>},
        open \in {<<d>>, <<d, d>>},
        content \in Seqs({"a", " ", "\n", d}, MaxContentLen),
        post \in {<<>>, <<" ">>, <<",">>, <<"a">>} }
SpanTexts == UNION { SpanTextsOf(d) : d \in Delimiters }

\* text without any markup delimiter, and text with the characters of the
\* underline role and of entities that form neither
PlainTexts == Seqs({"h", " ", "#", "&", ";", "\n"}, MaxPlainLen)

\* entities, double-escaped entities and their pieces
EntityTokens ==
    { Amp, <<"&">>, <<"g","e",";">>, <<"l","t",";">>, <<"n","b","s","p",";">>,
      <<"z","z",";">>, <<"#","1","0",";">>, <<"#","x","1","F",";">>, <<"a">> }
EntityTexts == { Flatten(tokens) : tokens \in Seqs(EntityTokens, MaxEntityTokens) }

ExampleTexts ==
    { <<"h","e","l","l","o">>,
      <<"T","h","a","t"," ","i","s"," ","*","s","t","r","o","n","g","*"," ","s","t","u","f","f","!">>,
      <<"a","*","b","*","c">>,
      <<"*","a"," ","b","*">>,
      <<"S","a","r","a","*","*","h","*","*">>,
      <<"*","*","a","*","b","*","c","*","*">>,
      <<"*","*","_","a","_","*","*">>,
      <<"_","_","a"," ","*","b","*"," ","c","_","_">>,
      <<"*","*","a","*","*","*","*","b","*","*">>,
      <<"2","^","3","2","^">>, <<"X","~","i","~">>,
      UnderlineRole \o <<"t","#">> }

ConvertTexts == SpanTexts \cup PlainTexts \cup EntityTexts \cup ExampleTexts

\* a call of convert(text)
InitConvert ==
    /\ InitMain /\ FixedCommandLine /\ OtherIdle
    /\ adoc_pc = Passes[1]
    /\ adoc_text \in ConvertTexts
    /\ adoc_result = adoc_text
    /\ adoc_raised = ""

\* the k-th statement of convert
ConvertStatement(k) ==
    /\ adoc_pc = Passes[k]
    /\ adoc_result' = ApplyPass(Passes[k], adoc_result)
    /\ adoc_pc' = IF k < Len(Passes) THEN Passes[k + 1] ELSE "return"
    /\ UNCHANGED <<main_vars, other_vars, adoc_text, adoc_raised>>

NextConvert == \E k \in 1..Len(Passes) : ConvertStatement(k)

SpecConvert == InitConvert /\ [][NextConvert]_vars

(***************************************************************************)
(* convert_tags_tables_to_html on one pseudo-table block.                  *)
(***************************************************************************)
MaxTableRows == 15

\* the rows of a table: cells with and without surrounding blanks, a
\* trailing empty cell, a single cell, an empty row
TableRowTexts == { <<"a","|","b">>, <<" ","a"," ","|">>, <<"a">>, <<>> }
TableHeadings == { <<>>, <<"h","|","i","\n">> }

\* sep.join(rows)
Join(rows, sep) ==
    Flatten([k \in 1..Len(rows) |-> IF k = 1 THEN rows[k] ELSE <<sep>> \o rows[k]])

\* heading\n===\nrows\n=== with n rows: all rows are the same non-empty
\* row, except the row after the last one rendered literally
TableTexts ==
    { heading \o <<"=","=","=","\n">>
      \o Join([k \in 1..n |-> IF k = MAX_TABLE_ROWS + 1 THEN row13 ELSE row], Pilcrow)
      \o <<"\n","=","=","=">> :
        heading \in TableHeadings, n \in 1..MaxTableRows,
        row \in TableRowTexts \ {<<>>}, row13 \in TableRowTexts }

\* a call of convert_tags_tables_to_html(text)
InitTables ==
    /\ InitMain /\ FixedCommandLine /\ OtherIdle
    /\ adoc_pc = "convert_tags_tables_to_html"
    /\ adoc_text \in TableTexts
    /\ adoc_result = <<>>
    /\ adoc_raised = ""

ConvertTagsTables ==
    /\ adoc_pc = "convert_tags_tables_to_html"
    /\ adoc_result' = convert_tags_tables_to_html(adoc_text)
    /\ adoc_pc' = "return"
    /\ UNCHANGED <<main_vars, other_vars, adoc_text, adoc_raised>>

NextTables == ConvertTagsTables

SpecTables == InitTables /\ [][NextTables]_vars

(***************************************************************************)
(* convert_adoc_links_to_html on texts with cross-reference links.         *)
(***************************************************************************)
MaxLinkLen == 4

LinkOpens == { <<"<","<">>, LT_UNICODE_STR \o LT_UNICODE_STR }
LinkCloses == { <<">",">">>, GT_UNICODE_STR \o GT_UNICODE_STR }

\* one link: what precedes it, the opening brackets, the content, the
\* closing brackets, what follows it
LinkTexts ==
    { pre \o open \o content \o close \o post :
        pre \in {<<>>, <<"x">>}, open \in LinkOpens,
        content \in Seqs({"a", "b", ",", " "}, MaxLinkLen),
        close \in LinkCloses, post \in {<<>>, <<"x">>} }

ExampleLinks ==
    { <<"<","<","f","o","o",">",">">>,
      <<"<","<","f","o","o",",","B","a","r",">",">">>,
      <<"<","<","f","o","o",",","B","a","r",",","B","a","z",">",">">>,
      <<"<","<","a",">",">"," ","<","<","b",",","c",">",">">>,
      <<"<","<","a","\n","b",">",">">> }

\* the target_html_fname argument: absent, or the name of an HTML file
LinkTargets == { None, Str(<<"t",".","h","t","m","l">>) }

\* a call of convert_adoc_links_to_html(text, target_html_fname)
InitLinks ==
    /\ InitMain /\ FixedCommandLine /\ OtherIdle
    /\ adoc_pc = "convert_adoc_links_to_html"
    /\ adoc_text \in LinkTexts \cup ExampleLinks
    /\ adoc_result = <<>>
    /\ adoc_raised = ""

\* the call returns the converted text, or the ValueError of replacer
\* leaves it
ConvertAdocLinks(target_html_fname) ==
    /\ adoc_pc = "convert_adoc_links_to_html"
    /\ LET r == convert_adoc_links_to_html(adoc_text, target_html_fname)
       IN  IF r.raised # ""
           THEN /\ adoc_raised' = r.raised
                /\ adoc_pc' = "raise"
                /\ UNCHANGED adoc_result
           ELSE /\ adoc_result' = r.out
                /\ adoc_pc' = "return"
                /\ UNCHANGED adoc_raised
    /\ UNCHANGED <<main_vars, other_vars, adoc_text>>

NextLinks == \E target_html_fname \in LinkTargets : ConvertAdocLinks(target_html_fname)

SpecLinks == InitLinks /\ [][NextLinks]_vars

(***************************************************************************)
(* The tag store under tag texts of every shape.                           *)
(***************************************************************************)
MaxStoreTags == 2

\* the values of a tag file's "tags" object: a text, a blank text, an empty
\* string, and values that are not strings
StoreTagTexts ==
    { Str(<<"h","i">>), Str(<<" ">>), Str(<<>>), Dict(Absent, Absent), None, IntVal }

StoreAddTags(tag_filename, name, text) ==
    /\ Len(tag_map) < MaxStoreTags
    /\ AddTags(tag_filename, name, text)

NextTags ==
    \/ FinishLoadDefinitions
    \/ \E f \in TagFiles, n \in {TagA, TagB, TagC}, t \in StoreTagTexts :
          StoreAddTags(f, Str(n), t)

SpecTags == InitStore /\ [][NextTags]_vars

(***************************************************************************)
(* add_file_contents on entries with a names list.  The lists that         *)
(* NormativeRuleDef.__init__ creates are objects of the heap: a rule holds *)
(* the addresses of its instances and of its tag_refs.                     *)
(***************************************************************************)
MaxFanRules == 3

\* self.instances = [] / self.tag_refs = []: the address of the new list,
\* given the addresses of the same list of the rules already made from the entry
NewListAt_SharedWithSibling(h, siblings) ==
    IF siblings = <<>> THEN Len(h) + 1 ELSE siblings[1]
NewListAt(h, siblings) == Len(h) + 1

\* the heap when the list at address a holds the elements v
StoreList(h, a, v) == IF a = Len(h) + 1 THEN Append(h, v) ELSE [h EXCEPT ![a] = v]

\* the lists of the rules that one entry appended to the store; first is
\* the position of the first of them
RECURSIVE BuildLists(_, _, _, _)
BuildLists(h, lists, rules, first) ==
    IF rules = <<>> THEN [heap |-> h, lists |-> lists]
    ELSE LET made == SubSeq(lists, first, Len(lists))
             a_inst == NewListAt(h, [k \in 1..Len(made) |-> made[k].instances])
             h_inst == StoreList(h, a_inst, Head(rules).instances)
             a_refs == NewListAt(h_inst, [k \in 1..Len(made) |-> made[k].tag_refs])
             h_refs == StoreList(h_inst, a_refs, Head(rules).tag_refs)
         IN  BuildLists(h_refs, Append(lists, [instances |-> a_inst, tag_refs |-> a_refs]),
                        Tail(rules), first)

FanNames == RuleNames \cup { <<"r","3">> }

\* entries with a names list (one name, several names, a name twice) and
\* entries with a name, without and with instances and tag references
FanEntries ==
    { [BaseEntry EXCEPT !.name = n[1], !.names = n[2], !.summary = f[1], !.kind = f[2],
                        !.instances = f[3], !.tag = f[4], !.tags = f[5]] :
        n \in { <<Str(x), Absent>> : x \in FanNames }
              \cup { <<Absent, List([k \in DOMAIN l |-> Str(l[k])])>> :
                        l \in Seqs(FanNames, Cardinality(FanNames)) \ {<<>>} },
        f \in { <<Absent, Absent, Absent, Absent, Absent>>,
                <<Str(<<"s">>), Str(<<"c","s","r">>), List(<<Str(<<"v","1">>), Str(<<"v","2">>)>>),
                  Str(TagA), List(<<Dict(Str(TagB), Bool(TRUE))>>)>> } }

\* one iteration of the loop of add_file_contents
FanOutEntry(def_filename, data) ==
    /\ pc = "load_defs"
    /\ Len(norm_rule_defs) < MaxFanRules
    /\ LET r == add_file_entry(norm_rule_defs, def_filename, ChapterNameOf(def_filename), data)
           b == BuildLists(heap, rule_lists,
                           SubSeq(r.defs, Len(norm_rule_defs) + 1, Len(r.defs)),
                           Len(rule_lists) + 1)
       IN  /\ norm_rule_defs' = r.defs
           /\ heap' = b.heap
           /\ rule_lists' = b.lists
           /\ IF r.err # ""
              THEN Fatal(<<AddDefMsg(r.defs, r.err, r.name, def_filename)>>)
              ELSE UNCHANGED <<pc, exit_status, log>>
    /\ cur_def_filename' = def_filename
    /\ cur_data' = data
    /\ UNCHANGED <<tag_map, args, tallies, output_file, adoc_vars, detect_vars>>

NextFanOut == \E f \in DefFiles, data \in FanEntries : FanOutEntry(f, data)

SpecFanOut == InitStore /\ [][NextFanOut]_vars

(***************************************************************************)
(* detect_tag_changes.py: TagChangeDetector.  A dict of tags is a function *)
(* from tag names to texts; a text is a str.                               *)
(***************************************************************************)
\* re.sub(r'\s+', ' ', s)
RECURSIVE CollapseWhitespace(_)
CollapseWhitespace(s) ==
    IF s = <<>> THEN <<>>
    ELSE IF Head(s) \in Whitespace
    THEN LET inked == { i \in 1..Len(s) : s[i] \notin Whitespace }
         IN  <<" ">> \o (IF inked = {} THEN <<>>
                         ELSE CollapseWhitespace(SubSeq(s, Min(inked), Len(s))))
    ELSE <<Head(s)>> \o CollapseWhitespace(Tail(s))

\* TagChangeDetector._normalize_whitespace
normalize_whitespace(text) == CollapseWhitespace(Strip(text))

\* open([^stop]+?)close matched at position q, for a close that starts
\* with a character of stop
Delimited(s, open, stop, close, q) ==
    LET c0 == q + Len(open)
        stops == { e \in c0..Len(s) : s[e] \in stop }
    IN  IF HasAt(s, q, open) /\ stops # {} /\ Min(stops) > c0 /\ HasAt(s, Min(stops), close)
        THEN Match(q, Min(stops) + Len(close) - 1, c0, Min(stops) - 1)
        ELSE NoMatch

\* the patterns of _strip_asciidoc_formatting, in the order of its statements
FormatKinds ==
    << "bold_unconstrained", "bold", "italic_unconstrained", "italic", "monospace",
       "superscript", "subscript", "role", "xref_text", "xref", "passthrough" >>

EscapedLt == <<"&","l","t",";","&","l","t",";">>
EscapedGt == <<"&","g","t",";","&","g","t",";">>

\* the pattern of a kind matched at position q
FormatAt(s, kind, q) ==
    CASE kind = "bold_unconstrained" -> Delimited(s, <<"*","*">>, {"*"}, <<"*","*">>, q)
      [] kind = "bold" -> Delimited(s, <<"*">>, {"*"}, <<"*">>, q)
      [] kind = "italic_unconstrained" -> Delimited(s, <<"_","_">>, {"_"}, <<"_","_">>, q)
      [] kind = "italic" ->
            \* (?<!\w)_([^_]+?)_(?!\w)
            LET m == Delimited(s, <<"_">>, {"_"}, <<"_">>, q)
            IN  IF /\ m.found
                   /\ q = 1 \/ s[q - 1] \notin WordChar
                   /\ m.to = Len(s) \/ s[m.to + 1] \notin WordChar
                THEN m ELSE NoMatch
      [] kind = "monospace" -> Delimited(s, <<Backtick>>, {Backtick}, <<Backtick>>, q)
      [] kind = "superscript" -> Delimited(s, <<"^">>, {"^"}, <<"^">>, q)
      [] kind = "subscript" -> Delimited(s, <<"~">>, {"~"}, <<"~">>, q)
      [] kind = "role" ->
            \* \[[^\]]+\]#([^#]+?)#
            LET closers == { j \in (q + 1)..Len(s) : s[j] = "]" }
                m == Delimited(s, <<"]","#">>, {"#"}, <<"#">>, Min(closers))
            IN  IF HasAt(s, q, <<"[">>) /\ closers # {} /\ Min(closers) > q + 1 /\ m.found
                THEN Match(q, m.to, m.first, m.last) ELSE NoMatch
      [] kind = "xref_text" ->
            \* &lt;&lt;[^,&]+,([^&]+)&gt;&gt;
            LET c0 == q + Len(EscapedLt)
                stops == { e \in c0..Len(s) : s[e] \in {",", "&"} }
                m == Delimited(s, <<",">>, {"&"}, EscapedGt, Min(stops))
            IN  IF HasAt(s, q, EscapedLt) /\ stops # {} /\ Min(stops) > c0 /\ m.found
                THEN Match(q, m.to, m.first, m.last) ELSE NoMatch
      [] kind = "xref" -> Delimited(s, EscapedLt, {"&"}, EscapedGt, q)
      [] kind = "passthrough" -> Delimited(s, <<"+","+","+">>, {"+"}, <<"+","+","+">>, q)

\* re.sub(pattern, r'\1', s) from p on; the cross-reference without text is
\* replaced by the empty string
RECURSIVE FormatSub(_, _, _)
FormatSub(s, kind, p) ==
    LET q == Leftmost({ i \in p..Len(s) : FormatAt(s, kind, i).found })
        m == FormatAt(s, kind, q)
    IN  IF q = 0 THEN SubSeq(s, p, Len(s))
        ELSE SubSeq(s, p, m.from - 1) \o (IF kind = "xref" THEN <<>> ELSE Group(s, m))
             \o FormatSub(s, kind, m.to + 1)

\* the statements of _strip_asciidoc_formatting from the k-th on
RECURSIVE StripFormatsFrom(_, _)
StripFormatsFrom(result, k) ==
    IF k > Len(FormatKinds) THEN result
    ELSE StripFormatsFrom(FormatSub(result, FormatKinds[k], 1), k + 1)

\* TagChangeDetector._strip_asciidoc_formatting
strip_asciidoc_formatting(text) == Strip(StripFormatsFrom(text, 1))

\* TagChangeDetector._normalize_text
normalize_text_WhitespaceOnly(text) == normalize_whitespace(text)
normalize_text(text) == strip_asciidoc_formatting(normalize_whitespace(text))

\* TagChangeDetector.detect_changes
detect_changes(reference, current) ==
    LET added_keys == DOMAIN current \ DOMAIN reference
        deleted_keys == DOMAIN reference \ DOMAIN current
        common_keys == DOMAIN reference \cap DOMAIN current
        modified_keys == { tag_name \in common_keys :
                             normalize_text(reference[tag_name])
                                # normalize_text(current[tag_name]) }
    IN  [added |-> [tag_name \in added_keys |-> current[tag_name]],
         deleted |-> [tag_name \in deleted_keys |-> reference[tag_name]],
         modified |-> [tag_name \in modified_keys |->
                          [reference |-> reference[tag_name], current |-> current[tag_name]]]]

\* TagChanges.any_changes and TagChanges.total_changes
any_changes(c) == DOMAIN c.added # {} \/ DOMAIN c.deleted # {} \/ DOMAIN c.modified # {}
total_changes(c) ==
    Cardinality(DOMAIN c.added) + Cardinality(DOMAIN c.deleted) + Cardinality(DOMAIN c.modified)

\* a JSON file: missing, not JSON, or an object with or without a "tags" key
TagsFile(kind, has_tags, tags) == [kind |-> kind, has_tags |-> has_tags, tags |-> tags]

\* TagChangeDetector.load_tags: the tags, or the message of sys.exit
load_tags(file) ==
    IF file.kind = "missing" THEN [err |-> "Error: File not found", tags |-> <<>>]
    ELSE IF file.kind = "invalid" THEN [err |-> "Error: Failed to parse JSON", tags |-> <<>>]
    ELSE [err |-> "", tags |-> IF file.has_tags THEN file.tags ELSE <<>>]

\* the loop of update_tags_file: data["tags"][tag_name] = tag_text
AddNewTags_AlsoModified(tags, c) ==
    [tag_name \in DOMAIN tags \cup DOMAIN c.added |->
        IF tag_name \in DOMAIN c.added THEN c.added[tag_name]
        ELSE IF tag_name \in DOMAIN c.modified THEN c.modified[tag_name].current
        ELSE tags[tag_name]]
AddNewTags(tags, c) ==
    [tag_name \in DOMAIN tags \cup DOMAIN c.added |->
        IF tag_name \in DOMAIN c.added THEN c.added[tag_name] ELSE tags[tag_name]]

\* TagChangeDetector.update_tags_file(file_path, changes) when open() and
\* json.dump end as io says: the file afterwards, what was printed, and
\* whether sys.exit was called with that message
update_tags_file(file, c, io) ==
    IF DOMAIN c.added = {} THEN [file |-> file, out |-> "No additions to merge", exits |-> FALSE]
    ELSE IF file.kind = "missing"
    THEN [file |-> file, out |-> "Error: Cannot update file - not found", exits |-> TRUE]
    ELSE IF file.kind = "invalid"
    THEN [file |-> file, out |-> "Error: Failed to parse JSON", exits |-> TRUE]
    ELSE IF ~file.has_tags
    THEN [file |-> file, out |-> "Error: Failed to update (KeyError)", exits |-> TRUE]
    ELSE IF io = "open_fails"
    THEN [file |-> file, out |-> "Error: Failed to update (OSError)", exits |-> TRUE]
    ELSE IF io = "write_fails"
    THEN [file |-> TagsFile("invalid", FALSE, <<>>),
          out |-> "Error: Failed to update (OSError)", exits |-> TRUE]
    ELSE [file |-> TagsFile("object", TRUE, AddNewTags(file.tags, c)),
          out |-> "Updated", exits |-> FALSE]

(***************************************************************************)
(* main() of detect_tag_changes.py.                                        *)
(***************************************************************************)
MaxDetectTags == 2

DetectNames == { <<"t">> \o Decimal(k) : k \in 1..MaxDetectTags }
\* a text, the same text with other whitespace and bold markup, another text
DetectTexts == { <<"a"," ","b">>, <<" ","*","a","*"," "," ","b">>, <<"a"," ","c">> }
DetectFiles ==
    { TagsFile("object", TRUE, tags) :
        tags \in UNION { [S -> DetectTexts] : S \in SUBSET DetectNames } }
    \cup { TagsFile("object", FALSE, <<>>), TagsFile("missing", FALSE, <<>>),
           TagsFile("invalid", FALSE, <<>>) }

\* the tool starts: parse_options has returned
InitDetect ==
    /\ InitMain /\ FixedCommandLine
    /\ adoc_pc = "idle" /\ adoc_text = <<>> /\ adoc_result = <<>> /\ adoc_raised = ""
    /\ heap = <<>> /\ rule_lists = <<>> /\ cur_def_filename = "" /\ cur_data = BaseEntry
    /\ detect_pc = "load_reference"
    /\ reference_file \in DetectFiles
    /\ current_file \in DetectFiles
    /\ update_reference \in BOOLEAN
    /\ reference_tags = <<>>
    /\ current_tags = <<>>
    /\ changes = NoChanges
    /\ detect_output = <<>>
    /\ detect_status = -1

\* sys.exit(message): the message goes to stderr and the status is 1
DetectExit(message) ==
    /\ detect_output' = Append(detect_output, message)
    /\ detect_status' = 1
    /\ detect_pc' = "exit"

\* reference_tags = detector.load_tags(options.reference_file)
LoadReferenceTags ==
    /\ detect_pc = "load_reference"
    /\ LET r == load_tags(reference_file)
       IN  IF r.err # ""
           THEN DetectExit(r.err) /\ UNCHANGED reference_tags
           ELSE /\ reference_tags' = r.tags
                /\ detect_pc' = "load_current"
                /\ UNCHANGED <<detect_output, detect_status>>
    /\ UNCHANGED <<main_vars, adoc_vars, fan_vars, reference_file, current_file,
                   update_reference, current_tags, changes>>

\* current_tags = detector.load_tags(options.current_file)
LoadCurrentTags ==
    /\ detect_pc = "load_current"
    /\ LET r == load_tags(current_file)
       IN  IF r.err # ""
           THEN DetectExit(r.err) /\ UNCHANGED current_tags
           ELSE /\ current_tags' = r.tags
                /\ detect_pc' = "detect_changes"
                /\ UNCHANGED <<detect_output, detect_status>>
    /\ UNCHANGED <<main_vars, adoc_vars, fan_vars, reference_file, current_file,
                   update_reference, reference_tags, changes>>

\* changes = detector.detect_changes(reference_tags, current_tags)
DetectChanges ==
    /\ detect_pc = "detect_changes"
    /\ changes' = detect_changes(reference_tags, current_tags)
    /\ detect_pc' = "display_changes"
    /\ UNCHANGED <<main_vars, adoc_vars, fan_vars, reference_file, current_file,
                   update_reference, reference_tags, current_tags, detect_output,
                   detect_status>>

\* detector.display_changes(...), then the test of options.update_reference
DisplayChanges ==
    /\ detect_pc = "display_changes"
    /\ detect_output' = Append(detect_output,
                               IF any_changes(changes) THEN "Tag Changes Report"
                               ELSE "No changes detected.")
    /\ detect_pc' = IF update_reference THEN "update_tags_file" ELSE "sys_exit"
    /\ UNCHANGED <<main_vars, adoc_vars, fan_vars, reference_file, current_file,
                   update_reference, reference_tags, current_tags, changes, detect_status>>

\* detector.update_tags_file(options.reference_file, changes)
UpdateTagsFile(io) ==
    /\ detect_pc = "update_tags_file"
    /\ LET r == update_tags_file(reference_file, changes, io)
       IN  /\ reference_file' = r.file
           /\ IF r.exits
              THEN DetectExit(r.out)
              ELSE /\ detect_output' = Append(detect_output, r.out)
                   /\ detect_pc' = "sys_exit"
                   /\ UNCHANGED detect_status
    /\ UNCHANGED <<main_vars, adoc_vars, fan_vars, current_file, update_reference,
                   reference_tags, current_tags, changes>>

\* sys.exit(1 if has_modifications_or_deletions else 0)
SysExit ==
    /\ detect_pc = "sys_exit"
    /\ detect_status' = IF DOMAIN changes.modified # {} \/ DOMAIN changes.deleted # {}
                        THEN 1 ELSE 0
    /\ detect_pc' = "exit"
    /\ UNCHANGED <<main_vars, adoc_vars, fan_vars, reference_file, current_file,
                   update_reference, reference_tags, current_tags, changes, detect_output>>

NextDetect ==
    \/ LoadReferenceTags
    \/ LoadCurrentTags
    \/ DetectChanges
    \/ DisplayChanges
    \/ \E io \in IoOutcomes : UpdateTagsFile(io)
    \/ SysExit

SpecDetect == InitDetect /\ [][NextDetect]_vars

(***************************************************************************)
(* The rule store under entries that violate several field invariants at   *)
(* once; the entry of the current iteration is kept in cur_data.           *)
(***************************************************************************)
MaxOrderRules == 1

OrderEntries ==
    { [BaseEntry EXCEPT !.name = Str(n), !.summary = s, !.kind = k,
                        !.impl_def_behavior = b, !.impl_def_category = c, !.instance = i] :
        n \in { <<"r","1">>, <<"r",":","1">> },
        s \in { Absent, IntVal },
        k \in { Absent, Str(<<"c","s","r">>), Str(<<"z","z">>) },
        b \in { Absent, Bool(TRUE), Bool(FALSE), IntVal },
        c \in { Absent, Str(<<"W","A","R","L">>), Str(<<"X","X">>), IntVal },
        i \in { Absent, Str(<<"v","1">>) } }

OrderAddFileContents(def_filename, data) ==
    /\ Len(norm_rule_defs) < MaxOrderRules
    /\ FanOutEntry(def_filename, data)

NextOrder == \E data \in OrderEntries : OrderAddFileContents("d1.yaml", data)

SpecOrder == InitStore /\ [][NextOrder]_vars

(***************************************************************************)
(* The rule store under entries whose "instance" and "instances" have      *)
(* every shape a YAML file can give them.                                  *)
(***************************************************************************)
MaxInstanceRules == 2

InstanceEntries ==
    { [BaseEntry EXCEPT !.name = Str(n), !.kind = k, !.instance = i, !.instances = is] :
        n \in RuleNames,
        k \in { Absent, Str(<<"c","s","r">>) },
        i \in { Absent, None, Str(<<"v","1">>), IntVal },
        is \in { Absent, List(<<>>), List(<<Str(<<"v","2">>)>>),
                 List(<<Str(<<"v","2">>), Str(<<"v","3">>)>>), List(<<IntVal>>),
                 Str(<<"v","3">>), IntVal } }

InstanceAddFileContents(def_filename, data) ==
    /\ Len(norm_rule_defs) < MaxInstanceRules
    /\ FanOutEntry(def_filename, data)

NextInstance == \E data \in InstanceEntries : InstanceAddFileContents("d1.yaml", data)

SpecInstance == InitStore /\ [][NextInstance]_vars

(***************************************************************************)
(* The rule store under entries whose "tag" and "tags" have every shape    *)
(* that the loop of NormativeRuleDef.__init__ tells apart.                 *)
(***************************************************************************)
MaxTagRefRules == 1
MaxTagsLen == 2

TagRefElements ==
    { Str(TagB), Dict(Str(TagC), Bool(TRUE)), Dict(Str(TagA), Absent),
      Dict(Absent, Bool(TRUE)), Dict(Str(TagC), Str(<<"y","e","s">>)), IntVal }

TagRefEntries ==
    { [BaseEntry EXCEPT !.name = Str(<<"r","1">>), !.tag = t, !.tags = ts] :
        t \in { Absent, None, Str(TagA) },
        ts \in { Absent } \cup { List(l) : l \in Seqs(TagRefElements, MaxTagsLen) } }

TagRefAddFileContents(def_filename, data) ==
    /\ Len(norm_rule_defs) < MaxTagRefRules
    /\ FanOutEntry(def_filename, data)

NextTagRef == \E data \in TagRefEntries : TagRefAddFileContents("d1.yaml", data)

SpecTagRef == InitStore /\ [][NextTagRef]_vars

(***************************************************************************)
(* Runs of main() up to validate_defs_and_tags under rule names with and   *)
(* without the prefix of tag names.                                        *)
(***************************************************************************)
MaxPrefixRules == 1

PrefixNames ==
    { <<"r","1">>, <<"R","1">>, NORM_PREFIX, NORM_PREFIX \o <<"a">>, NORM_PREFIX \o <<"A","\n">>,
      <<"N","O","R","M",":","A">>, <<"n","o","r","m","_","a">>, <<"n","o","r","m","a">> }

PrefixEntries ==
    { [BaseEntry EXCEPT !.name = Str(n), !.impl_def_behavior = b, !.tag = t] :
        n \in PrefixNames, b \in { Absent, Bool(TRUE) }, t \in { Absent, Str(TagA) } }

PrefixAddFileContents(def_filename, data) ==
    /\ Len(norm_rule_defs) < MaxPrefixRules
    /\ LoadEntry(def_filename, data)

NextPrefix ==
    \/ \E data \in PrefixEntries : PrefixAddFileContents("d1.yaml", data)
    \/ FinishLoadDefinitions
    \/ \E f \in TagFiles, n \in TagNames : AddTags(f, Str(n), Str(<<"h","i">>))
    \/ FinishLoadTags
    \/ Validate

SpecPrefix == Init /\ [][NextPrefix]_vars

(***************************************************************************)
(* Properties.                                                             *)
(***************************************************************************)
Last(seq) == seq[Len(seq)]
\* this step printed a fatal message of the given kind
Printed(kind) == Len(log') = Len(log) + 1 /\ Last(log').kind = kind
\* seq' extends seq, or is seq: nothing stored before is changed or removed
Extends(old, new) == Len(new) >= Len(old) /\ \A i \in 1..Len(old) : new[i] = old[i]
DistinctNames(seq) == \A i, j \in 1..Len(seq) : seq[i].name = seq[j].name => i = j

\* C1: no two stored tags and no two stored rules share a name; a step that
\* reports a duplicate name (whatever the two files) leaves both stores as
\* they were, the first entry being the one of the file the message cites;
\* and no step changes or removes an entry stored before.
C1_UniqueNames ==
    /\ [](DistinctNames(tag_map) /\ DistinctNames(norm_rule_defs))
    /\ [][/\ Extends(tag_map, tag_map')
          /\ Extends(norm_rule_defs, norm_rule_defs')
          /\ Printed("duplicate_tag") =>
                /\ tag_map' = tag_map
                /\ \E k \in 1..Len(tag_map) :
                      /\ tag_map[k].name = Last(log').tag
                      /\ tag_map[k].tag_filename = Last(log').other
          /\ Printed("duplicate_rule") =>
                /\ \E k \in 1..Len(norm_rule_defs) :
                      /\ norm_rule_defs[k].name = Last(log').name
                      /\ norm_rule_defs[k].def_filename = Last(log').other
                      /\ norm_rule_defs'[k] = norm_rule_defs[k]
                /\ \A k \in (Len(norm_rule_defs) + 1)..Len(norm_rule_defs') :
                      norm_rule_defs'[k].name # Last(log').name]_vars

\* a run in which a tag of one file was rejected as the duplicate of a tag of
\* another file, the rule store holding two rules
C1_Witness ==
    /\ log # <<>>
    /\ Last(log).kind = "duplicate_tag"
    /\ Last(log).file # Last(log).other
    /\ Len(tag_map) = 1
    /\ Len(norm_rule_defs) = 2

\* the whole name matches the pattern selected by impldef (no re.match, no $)
FullMatch(impldef, name) ==
    /\ Len(name) >= 2
    /\ name[1] \in (IF impldef THEN Upper ELSE Upper \cup Lower)
    /\ \A i \in 2..Len(name) :
          name[i] \in (IF impldef THEN Upper \cup Digit \cup {"_"}
                       ELSE Upper \cup Lower \cup Digit \cup {"_", "-"})

\* C2: a rule is accepted by the name check exactly when its whole name
\* matches the pattern selected by is_impl_def: every stored rule's name
\* matches in full, and every name rejected by the name check does not.
C2_NameAcceptedIffFullMatch ==
    /\ \A i \in 1..Len(norm_rule_defs) :
          FullMatch(norm_rule_defs[i].impldef, norm_rule_defs[i].name)
    /\ \A k \in 1..Len(log) :
          /\ log[k].kind = "name_pattern_impldef" => ~FullMatch(TRUE, log[k].name)
          /\ log[k].kind = "name_pattern_norm_rule" => ~FullMatch(FALSE, log[k].name)

\* C3: every stored rule has impl_def_category set only if is_impl_def is
\* true, and a step that reports impl-def-category without impl-def-behavior
\* adds nothing to the store.
C3_CategoryRequiresImpldef ==
    /\ [](\A i \in 1..Len(norm_rule_defs) :
            norm_rule_defs[i].impldef_cat.t # "NoneType" => norm_rule_defs[i].impldef)
    /\ [][Printed("impldef_cat_without_impldef") =>
            /\ norm_rule_defs' = norm_rule_defs
            /\ exit_status' = 1]_vars

\* a construction with a category and without impl-def-behavior was rejected
\* while the store held a rule
C3_Witness ==
    /\ log # <<>>
    /\ Last(log).kind = "impldef_cat_without_impldef"
    /\ Len(norm_rule_defs) = 1

\* C4: every stored rule has a non-empty instances sequence only if kind is
\* set, and a step that reports instances without kind adds nothing to the
\* store.
C4_InstancesRequireKind ==
    /\ [](\A i \in 1..Len(norm_rule_defs) :
            norm_rule_defs[i].instances # <<>> => norm_rule_defs[i].kind.t # "NoneType")
    /\ [][Printed("instances_without_kind") =>
            /\ norm_rule_defs' = norm_rule_defs
            /\ exit_status' = 1]_vars

\* a construction with instances and no kind was rejected while the store
\* held a rule with instances and a kind
C4_Witness ==
    /\ log # <<>>
    /\ Last(log).kind = "instances_without_kind"
    /\ Len(norm_rule_defs) = 1
    /\ norm_rule_defs[1].instances # <<>>

\* validate_defs_and_tags has run
ValidationRan == missing_tag_cnt # -1
\* the run ended at the gate of validate_defs_and_tags
GateExited ==
    /\ pc = "exit"
    /\ exit_status = 1
    /\ ~output_file.opened
    /\ \E k \in 1..Len(log) : log[k].kind = "exiting_due_to_errors"
\* validate_defs_and_tags has returned
GatePassed ==
    /\ ValidationRan
    /\ \A k \in 1..Len(log) : log[k].kind # "exiting_due_to_errors"
TagNamesStored == {tag_map[k].name : k \in 1..Len(tag_map)}
\* the (rule, reference) pairs whose name no stored tag has
MissingRefs ==
    UNION { { <<i, j>> : j \in { j \in 1..Len(norm_rule_defs[i].tag_refs) :
                                   norm_rule_defs[i].tag_refs[j].name \notin TagNamesStored } } :
            i \in 1..Len(norm_rule_defs) }
\* the stored tags that no rule references
UnreferencedTags ==
    { k \in 1..Len(tag_map) :
        \A i \in 1..Len(norm_rule_defs) : \A j \in 1..Len(norm_rule_defs[i].tag_refs) :
            norm_rule_defs[i].tag_refs[j].name # tag_map[k].name }
ReservedNames == { i \in 1..Len(norm_rule_defs) : StartsWith(norm_rule_defs[i].name, NORM_PREFIX) }

\* C5: once validation has run, every tag reference whose name is not in the
\* tag store was reported as an error naming the rule and the tag, and if
\* there is one the run ended at the gate with status 1 and no output, in
\* strict and in lenient mode; when validation passed, every reference
\* resolves.
C5_ReferentialClosure ==
    ValidationRan =>
        /\ \A p \in MissingRefs :
              \E k \in 1..Len(log) :
                  log[k] = Msg("ERROR", "missing_tag", norm_rule_defs[p[1]].name,
                               norm_rule_defs[p[1]].tag_refs[p[2]].name,
                               norm_rule_defs[p[1]].def_filename, "")
        /\ MissingRefs # {} => GateExited
        /\ GatePassed => MissingRefs = {}

\* lenient mode, every stored tag referenced, and still the run ended at the
\* gate because of a reference to a tag that does not exist
C5_Witness ==
    /\ ValidationRan
    /\ warn_if_tags_no_rules
    /\ MissingRefs # {}
    /\ UnreferencedTags = {}
    /\ Len(tag_map) = 2
    /\ GateExited

\* C6: once validation has run, every stored tag that no rule references was
\* reported; if there is one, the run ended at the gate in strict mode, and
\* in lenient mode validation passed provided no reference is missing and no
\* rule name has the reserved prefix.
C6_UnreferencedTags ==
    ValidationRan =>
        /\ \A k \in UnreferencedTags :
              \E m \in 1..Len(log) :
                  /\ log[m].kind = "unreferenced_tag"
                  /\ log[m].tag = tag_map[k].name
                  /\ log[m].level = (IF warn_if_tags_no_rules THEN "INFO" ELSE "ERROR")
        /\ (UnreferencedTags # {} /\ ~warn_if_tags_no_rules) => GateExited
        /\ (UnreferencedTags # {} /\ warn_if_tags_no_rules /\ MissingRefs = {} /\ ReservedNames = {})
              => GatePassed /\ pc # "validate"

\* lenient mode: a tag that no rule references, no missing reference, and
\* validation passed
C6_Witness ==
    /\ ValidationRan
    /\ warn_if_tags_no_rules
    /\ UnreferencedTags # {}
    /\ MissingRefs = {}
    /\ norm_rule_defs # <<>>
    /\ GatePassed

\* C7: at the gate the missing-tag tally is the number of (rule, reference)
\* pairs whose name is not in the tag store and the unreferenced tally is the
\* number of stored tags that no rule references, whatever other faults the
\* catalog has.
C7_TalliesAreComplete ==
    ValidationRan =>
        /\ missing_tag_cnt = Cardinality(MissingRefs)
        /\ unref_cnt = Cardinality(UnreferencedTags)
        /\ referenced_tags = TagNamesStored \ {tag_map[k].name : k \in UnreferencedTags}

\* a catalog with two missing references in one rule's list position order
\* (a missing reference followed by a resolved one) and an unreferenced tag
C7_Witness ==
    /\ ValidationRan
    /\ missing_tag_cnt = 2
    /\ unref_cnt = 1
    /\ \E i \in 1..Len(norm_rule_defs) :
          /\ Len(norm_rule_defs[i].tag_refs) = 2
          /\ <<i, 1>> \in MissingRefs
          /\ <<i, 2>> \notin MissingRefs

\* a rule violates the clarification fields' rules
ClarificationViolation(d) ==
    \/ d.clarification_text.t # "NoneType" /\ d.clarification_link.t = "NoneType"
    \/ d.clarification_link.t # "NoneType" /\ ~MatchClarificationLink(d.clarification_link.s)

\* C8: once validation has run on a catalog in which some rule has
\* clarification_text without clarification_link, or a clarification_link
\* that is no issue-tracker URL, the run has ended with status 1 and without
\* output.
C8_ClarificationViolationsGate ==
    (ValidationRan /\ \E i \in 1..Len(norm_rule_defs) : ClarificationViolation(norm_rule_defs[i]))
        => pc = "exit" /\ exit_status = 1 /\ ~output_file.opened

\* C9: the stores change only before validation has run; the output file is
\* opened only after validation has run and found nothing that fails the
\* gate; a run that ended during loading or at the gate has status 1 and no
\* output file.
C9_PhaseOrdering ==
    /\ [][(norm_rule_defs' # norm_rule_defs \/ tag_map' # tag_map)
            => ~ValidationRan /\ missing_tag_cnt' = -1 /\ pc' \in {"load_defs", "load_tags", "exit"}]_vars
    /\ [][missing_tag_cnt' # missing_tag_cnt => pc = "validate" /\ missing_tag_cnt = -1]_vars
    /\ [](output_file.opened =>
            /\ ValidationRan
            /\ missing_tag_cnt = 0
            /\ bad_norm_rule_name_cnt = 0
            /\ (unref_cnt = 0 \/ warn_if_tags_no_rules))
    /\ []((pc = "exit" /\ (~ValidationRan \/ missing_tag_cnt > 0 \/ bad_norm_rule_name_cnt > 0
                           \/ (unref_cnt > 0 /\ ~warn_if_tags_no_rules)))
            => exit_status = 1 /\ ~output_file.opened)

\* a run that loaded two rules and two tags, validated them and wrote its output
C9_Witness ==
    /\ pc = "exit"
    /\ exit_status = 0
    /\ output_file.complete
    /\ Len(norm_rule_defs) = 2
    /\ Len(tag_map) = 2

\* C10: the JSON export holds one entry per rule, in definition order, each
\* with a tags list holding one entry per tag reference of the rule, in
\* reference order: name and context of the reference, text and file of the
\* tag of that name, and the URL mapped to that file.
C10_JsonExport ==
    (output_format = "json" /\ output_file.complete) =>
        LET out == output_file.normative_rules
        IN  /\ Len(out) = Len(norm_rule_defs)
            /\ \A i \in 1..Len(norm_rule_defs) :
                  LET d == norm_rule_defs[i]
                  IN  /\ out[i].name = d.name
                      /\ out[i].def_filename = d.def_filename
                      /\ Len(out[i].tags) = Len(d.tag_refs)
                      /\ \A j \in 1..Len(d.tag_refs) :
                            /\ out[i].tags[j].name = d.tag_refs[j].name
                            /\ out[i].tags[j].context = d.tag_refs[j].context
                            /\ \E k \in 1..Len(tag_map) :
                                  /\ tag_map[k].name = d.tag_refs[j].name
                                  /\ out[i].tags[j].text = tag_map[k].text
                                  /\ out[i].tags[j].tag_filename = tag_map[k].tag_filename
                                  /\ tag_map[k].tag_filename \in DOMAIN tag_fname2url
                                  /\ out[i].tags[j].stds_doc_url = tag_fname2url[tag_map[k].tag_filename]

\* an export with a rule without references (an empty tags list) and a rule
\* with a plain and a context reference to tags of two files
C10_Witness ==
    /\ output_format = "json"
    /\ output_file.complete
    /\ Len(output_file.normative_rules) = 2
    /\ output_file.normative_rules[1].tags = <<>>
    /\ Len(output_file.normative_rules[2].tags) = 2
    /\ ~output_file.normative_rules[2].tags[1].context
    /\ output_file.normative_rules[2].tags[2].context
    /\ output_file.normative_rules[2].tags[1].tag_filename
          # output_file.normative_rules[2].tags[2].tag_filename

(***************************************************************************)
(* C11: in the JSON export, the text of every tag entry is what            *)
(* Adoc2HTML.convert returns for the text stored with the tag.             *)
(***************************************************************************)
C11_JsonTextIsConverted ==
    (output_format = "json" /\ output_file.complete) =>
        \A i \in 1..Len(output_file.normative_rules) :
            \A j \in 1..Len(output_file.normative_rules[i].tags) :
                LET entry == output_file.normative_rules[i].tags[j]
                IN  \E k \in 1..Len(tag_map) :
                        /\ tag_map[k].name = entry.name
                        /\ entry.text = convert(tag_map[k].text)

(***************************************************************************)
(* Properties of Adoc2HTML.convert.                                        *)
(***************************************************************************)
Returned == adoc_pc = "return"

\* the element a delimiter is converted to
TagOf(d) == IF d = "*" THEN BoldTag ELSE IF d = "_" THEN ItalicTag ELSE CodeTag

Occurrences(s, c) == Cardinality({ i \in 1..Len(s) : s[i] = c })

\* an entity in s: an ampersand, a name or a numeric code, a semicolon
HasEntity(s) ==
    \E i, j \in 1..Len(s) :
        /\ s[i] = "&" /\ s[j] = ";" /\ j > i + 1
        /\ \A k \in (i + 1)..(j - 1) : s[k] \in WordChar \cup {"#"}

\* s contains none of the markup delimiters
Unmarked(s) ==
    /\ \A i \in 1..Len(s) : s[i] \notin Delimiters \cup {"^", "~"}
    /\ \A i \in 1..Len(s) : ~HasAt(s, i, UnderlineRole)
    /\ ~HasEntity(s)

(***************************************************************************)
(* C12: convert leaves a text without markup delimiters unchanged: after   *)
(* every one of its statements the working string is still the text, so    *)
(* convert("hello") returns "hello".                                       *)
(***************************************************************************)
C12_UnmarkedTextUnchanged ==
    Unmarked(adoc_text) => adoc_result = adoc_text

\* convert has returned for "hello", and for a text in which the characters
\* # & ; occur without forming the underline role or an entity
C12_Witness ==
    /\ Returned
    /\ \/ adoc_text = <<"h","e","l","l","o">>
       \/ adoc_text = <<"#","h","#">>
       \/ adoc_text = <<"&"," ",";">>
    /\ adoc_result = adoc_text

(***************************************************************************)
(* C13: a text with one single-delimiter span, its content on one line,    *)
(* is converted exactly when the opening delimiter is at the start of the  *)
(* text or after whitespace, the content neither starts nor ends with      *)
(* whitespace, and the closing delimiter is at the end of the text or      *)
(* before whitespace or one of , ; " . ? ! -- then the content is wrapped  *)
(* in the element of the delimiter, whatever whitespace is inside it;      *)
(* otherwise the text is returned unchanged.                               *)
(***************************************************************************)
\* s[o] and s[e] are the only delimiters of s, with content between them
SingleSpan(s, d, o, e) ==
    /\ o + 1 < e
    /\ { i \in 1..Len(s) : s[i] \in Delimiters \cup {"^", "~"} } = {o, e}
    /\ s[o] = d /\ s[e] = d
    /\ \A i \in (o + 1)..(e - 1) : s[i] # "\n"
    /\ ~HasEntity(s)

ConstrainedBoundary(s, o, e) ==
    /\ o = 1 \/ s[o - 1] \in Whitespace
    /\ s[o + 1] \notin Whitespace
    /\ s[e - 1] \notin Whitespace
    /\ e = Len(s) \/ s[e + 1] \in {",", ";", "\"", ".", "?", "!"} \cup Whitespace

C13_ConstrainedBoundaryRule ==
    Returned =>
        \A d \in Delimiters : \A o, e \in 1..Len(adoc_text) :
            SingleSpan(adoc_text, d, o, e) =>
                adoc_result =
                    IF ConstrainedBoundary(adoc_text, o, e)
                    THEN SubSeq(adoc_text, 1, o - 1)
                         \o Wrap(TagOf(d), SubSeq(adoc_text, o + 1, e - 1))
                         \o SubSeq(adoc_text, e + 1, Len(adoc_text))
                    ELSE adoc_text

(***************************************************************************)
(* C14: a double-delimiter span with content (on one line) is converted    *)
(* wherever it stands, whatever precedes and follows it: the content is    *)
(* wrapped in the element of the delimiter.  The span ends at the next     *)
(* double delimiter, and spans inside the content are converted too.       *)
(***************************************************************************)
\* s[o], s[o+1] and s[e], s[e+1] are the only delimiters of s
DoubleSpan(s, d, o, e) ==
    /\ o + 2 < e /\ e + 1 <= Len(s)
    /\ { i \in 1..Len(s) : s[i] \in Delimiters \cup {"^", "~"} } = {o, o + 1, e, e + 1}
    /\ \A i \in {o, o + 1, e, e + 1} : s[i] = d
    /\ \A i \in (o + 2)..(e - 1) : s[i] # "\n"
    /\ ~HasEntity(s)

C14_UnconstrainedAdjacency ==
    Returned =>
        /\ \A d \in Delimiters : \A o, e \in 1..Len(adoc_text) :
              DoubleSpan(adoc_text, d, o, e) =>
                  adoc_result = SubSeq(adoc_text, 1, o - 1)
                                \o Wrap(TagOf(d), SubSeq(adoc_text, o + 2, e - 1))
                                \o SubSeq(adoc_text, e + 2, Len(adoc_text))
        /\ adoc_text = <<"S","a","r","a","*","*","h","*","*">>
              => adoc_result = <<"S","a","r","a","<","b",">","h","<","/","b",">">>
        /\ adoc_text = <<"*","*","a","*","*","*","*","b","*","*">>
              => adoc_result = <<"<","b",">","a","<","/","b",">","<","b",">","b","<","/","b",">">>
        /\ adoc_text = <<"*","*","_","a","_","*","*">>
              => adoc_result = <<"<","b",">","<","i",">","a","<","/","i",">","<","/","b",">">>
        /\ adoc_text = <<"_","_","a"," ","*","b","*"," ","c","_","_">>
              => adoc_result = <<"<","i",">","a"," ","<","b",">","b","<","/","b",">"," ","c","<","/","i",">">>

\* convert has returned for a double-delimiter span between two letters
C14_Witness ==
    /\ Returned
    /\ \E d \in Delimiters : \E o, e \in 1..Len(adoc_text) :
          /\ DoubleSpan(adoc_text, d, o, e)
          /\ o > 1 /\ adoc_text[o - 1] = "a"
          /\ e + 2 <= Len(adoc_text) /\ adoc_text[e + 2] = "a"
          /\ Occurrences(adoc_result, "<") = 2

(***************************************************************************)
(* C15: convert runs its passes in one fixed order, each on the whole      *)
(* working string: unconstrained, constrained, superscript, subscript,     *)
(* underline, entity repair, entity names.  Therefore the two delimiters   *)
(* that open or close a double-delimiter span are never taken one by one   *)
(* by the single-delimiter pattern: the span is converted as a whole (the  *)
(* result has the element's tags where the double delimiters were and no   *)
(* more delimiter characters than the content had), and                    *)
(* convert("**a*b*c**") returns "<b>a*b*c</b>".                            *)
(***************************************************************************)
\* a double-delimiter span whose content may hold single delimiters
DoubleSpanWithSingles(s, d, o, e) ==
    /\ o + 2 < e /\ e + 1 <= Len(s)
    /\ \A i \in {o, o + 1, e, e + 1} : s[i] = d
    /\ \A i \in 1..Len(s) : s[i] \in Delimiters \cup {"^", "~"} => i \in o..(e + 1) /\ s[i] = d
    /\ s[o + 2] # d /\ s[e - 1] # d
    /\ \A i \in (o + 2)..(e - 2) : ~(s[i] = d /\ s[i + 1] = d)
    /\ \A i \in (o + 2)..(e - 1) : s[i] # "\n"
    /\ ~HasEntity(s)

C15_WholeSpans ==
    Returned =>
        /\ \A d \in Delimiters : \A o, e \in 1..Len(adoc_text) :
              DoubleSpanWithSingles(adoc_text, d, o, e) =>
                  LET open == SubSeq(adoc_text, 1, o - 1) \o <<"<">> \o TagOf(d) \o <<">">>
                      close == <<"<","/">> \o TagOf(d) \o <<">">>
                                 \o SubSeq(adoc_text, e + 2, Len(adoc_text))
                  IN  /\ HasAt(adoc_result, 1, open)
                      /\ HasAt(adoc_result, Len(adoc_result) - Len(close) + 1, close)
                      /\ Occurrences(adoc_result, d) <= Occurrences(adoc_text, d) - 4
        /\ adoc_text = <<"*","*","a","*","b","*","c","*","*">>
              => adoc_result = <<"<","b",">","a","*","b","*","c","<","/","b",">">>

C15_PassOrdering ==
    /\ adoc_pc = "convert_unconstrained"
    /\ [][ /\ adoc_pc = "convert_unconstrained" => adoc_pc' = "convert_constrained"
           /\ adoc_pc = "convert_constrained" => adoc_pc' = "convert_superscript"
           /\ adoc_pc = "convert_superscript" => adoc_pc' = "convert_subscript"
           /\ adoc_pc = "convert_subscript" => adoc_pc' = "convert_underline"
           /\ adoc_pc = "convert_underline" => adoc_pc' = "convert_extra_amp"
           /\ adoc_pc = "convert_extra_amp" => adoc_pc' = "convert_unicode_names"
           /\ adoc_pc = "convert_unicode_names" => adoc_pc' = "return"
           /\ adoc_text' = adoc_text ]_vars
    /\ []C15_WholeSpans

\* convert has returned for "**a*b*c**"
C15_Witness ==
    /\ Returned
    /\ adoc_text = <<"*","*","a","*","b","*","c","*","*">>
    /\ adoc_result = <<"<","b",">","a","*","b","*","c","<","/","b",">">>

(***************************************************************************)
(* C16: a pseudo-table block with N data rows is rendered with min(N, 12)  *)
(* literal rows, followed by one ellipsis row exactly when N > 12 (15 rows *)
(* give 12 literal rows and one ellipsis row); in a table, that is a block *)
(* whose data rows all have the same number of cells, the ellipsis row has *)
(* that number of cells.                                                   *)
(***************************************************************************)
\* the number of places where p occurs in s
Places(s, p) == Cardinality({ i \in 1..Len(s) : HasAt(s, i, p) })

\* the data rows of the block in s
BlockStart(s) == Min({ i \in 1..Len(s) : HasAt(s, i, <<"=","=","=","\n">>) }) + 4
BlockEnd(s) == Max({ i \in 1..Len(s) : HasAt(s, i, <<"\n","=","=","=">>) }) - 1
DataRows(s) == Split(SubSeq(s, BlockStart(s), BlockEnd(s)), Pilcrow)

\* every data row has n cells
HasColumns(s, n) ==
    \A k \in 1..Len(DataRows(s)) : Len(extract_tags_table_cells(DataRows(s)[k])) = n

\* the rows of the body of the rendered table, and the cells of its
\* ellipsis row
BodyRows(html) ==
    Places(html, <<"<","t","r",">">>) - Places(html, <<"<","t","h","e","a","d",">">>)
EllipsisCells(html) == Places(html, <<"<","t","d",">",".",".",".","<","/","t","d",">">>)

Bracket == {"<", ">", "&"}

\* where the link of s starts, its content starts, its content ends, it ends
LinkFrom(s) == Min({ i \in 1..Len(s) : s[i] \in Bracket })
ContentFrom(s) ==
    IF HasAt(s, LinkFrom(s), <<"<","<">>) THEN LinkFrom(s) + 2
    ELSE LinkFrom(s) + Len(LT_UNICODE_STR) + Len(LT_UNICODE_STR)
ContentTo(s) == Min({ i \in ContentFrom(s)..Len(s) : s[i] \in Bracket }) - 1
LinkTo(s) ==
    IF HasAt(s, ContentTo(s) + 1, <<">",">">>) THEN ContentTo(s) + 2
    ELSE ContentTo(s) + Len(GT_UNICODE_STR) + Len(GT_UNICODE_STR)
LinkContent(s) == SubSeq(s, ContentFrom(s), ContentTo(s))

\* s is a text with exactly one link, on one line
OneLink(s) ==
    /\ \E i \in 1..Len(s) : s[i] \in Bracket
    /\ \E open \in LinkOpens : HasAt(s, LinkFrom(s), open)
    /\ \E i \in ContentFrom(s)..Len(s) : s[i] \in Bracket
    /\ \E close \in LinkCloses : HasAt(s, ContentTo(s) + 1, close)
    /\ \A i \in (LinkTo(s) + 1)..Len(s) : s[i] \notin Bracket
    /\ \A i \in 1..Len(s) : s[i] # "\n"

\* <a href="target#name">link_text</a>
Anchor(target, name, link_text) ==
    <<"<","a"," ","h","r","e","f","=","\"">> \o target \o <<"#">> \o name
    \o <<"\"",">">> \o link_text \o <<"<","/","a",">">>

\* s without the blanks around it
Trimmed(s) ==
    LET inked == { i \in 1..Len(s) : s[i] # " " }
    IN  IF inked = {} THEN <<>> ELSE SubSeq(s, Min(inked), Max(inked))

C17_LinkResolution ==
    (adoc_pc \in {"return", "raise"} /\ OneLink(adoc_text)) =>
        LET content == LinkContent(adoc_text)
            commas == { i \in 1..Len(content) : content[i] = "," }
            name == Trimmed(IF commas = {} THEN content ELSE SubSeq(content, 1, Min(commas) - 1))
            custom == Trimmed(SubSeq(content, Min(commas) + 1, Len(content)))
            before == SubSeq(adoc_text, 1, LinkFrom(adoc_text) - 1)
            after == SubSeq(adoc_text, LinkTo(adoc_text) + 1, Len(adoc_text))
        IN  /\ (Cardinality(commas) = 0 /\ name # <<>>) =>
                  /\ adoc_pc = "return"
                  /\ \E target \in {<<>>, <<"t",".","h","t","m","l">>} :
                        adoc_result = before \o Anchor(target, name, name) \o after
            /\ (Cardinality(commas) = 1 /\ name # <<>>) =>
                  /\ adoc_pc = "return"
                  /\ \E target \in {<<>>, <<"t",".","h","t","m","l">>} :
                        adoc_result = before \o Anchor(target, name, custom) \o after
            /\ Cardinality(commas) > 1 =>
                  /\ adoc_pc = "raise"
                  /\ adoc_raised = "ValueError_too_many_commas"
                  /\ adoc_result = <<>>

\* <<foo,Bar>> was converted for the target t.html, and <<foo,Bar,Baz>>
\* raised the error
C17_Witness ==
    \/ /\ adoc_pc = "return"
       /\ adoc_text = <<"<","<","f","o","o",",","B","a","r",">",">">>
       /\ adoc_result = Anchor(<<"t",".","h","t","m","l">>, <<"f","o","o">>, <<"B","a","r">>)
    \/ /\ adoc_pc = "raise"
       /\ adoc_text = <<"<","<","f","o","o",",","B","a","r",",","B","a","z",">",">">>

(***************************************************************************)
(* C18: a link whose content is empty or only blanks makes                 *)
(* convert_adoc_links_to_html raise the "empty hyperlink" error: the text  *)
(* is not returned as it was, and no anchor with an empty target is        *)
(* returned.                                                               *)
(***************************************************************************)
C18_EmptyLinkIsAnError ==
    (adoc_pc \in {"return", "raise"} /\ OneLink(adoc_text)
        /\ Trimmed(LinkContent(adoc_text)) = <<>>) =>
            adoc_pc = "raise" /\ adoc_raised = "ValueError_empty"

(***************************************************************************)
(* C19: the entity passes of convert.  A double-escaped entity             *)
(* (&amp;name;, &amp;#NNN;, &amp;#xHH;) is its single-escaped form when    *)
(* convert_extra_amp has run; when convert returns, an entity &name; whose *)
(* name is in the table is its numeric form &#N;, and an entity whose name *)
(* is not in the table, or that is numeric, is as it was.                  *)
(***************************************************************************)
\* names of the table with their numeric codes, and a name not in the table
KnownNames ==
    { <<<<"g","e">>, <<"8","8","0","5">>>>, <<<<"l","t">>, <<"6","0">>>>,
      <<<<"n","b","s","p">>, <<"1","6","0">>>> }
UnknownNames == { <<"z","z">> }
NumericCodes == { <<"#","1","0">>, <<"#","x","1","F">> }

Single(name) == <<"&">> \o name \o <<";">>
Double(name) == <<"&","a","m","p",";">> \o name \o <<";">>

\* the text is the entity with before in front of it and after behind it;
\* then the working string is restored once convert_extra_amp has run, and
\* final when convert returns
EntityCase(before, entity, after, restored, final) ==
    adoc_text = before \o entity \o after =>
        /\ adoc_pc = "convert_unicode_names" => adoc_result = before \o restored \o after
        /\ Returned => adoc_result = before \o final \o after

C19_EntityPasses ==
    \A before, after \in {<<>>, <<"a">>} :
        /\ \A known \in KnownNames :
              LET numeric == <<"&","#">> \o known[2] \o <<";">>
              IN  /\ EntityCase(before, Double(known[1]), after, Single(known[1]), numeric)
                  /\ EntityCase(before, Single(known[1]), after, Single(known[1]), numeric)
        /\ \A name \in UnknownNames \cup NumericCodes :
              /\ EntityCase(before, Double(name), after, Single(name), Single(name))
              /\ EntityCase(before, Single(name), after, Single(name), Single(name))

\* &amp;ge; was restored to &ge;, and &amp;zz; was returned as &zz;
C19_Witness ==
    \/ /\ adoc_pc = "convert_unicode_names"
       /\ adoc_text = Double(<<"g","e">>)
       /\ adoc_result = Single(<<"g","e">>)
    \/ /\ Returned
       /\ adoc_text = Double(<<"z","z">>)
       /\ adoc_result = Single(<<"z","z">>)

(***************************************************************************)
(* C20: add_tags rejects a tag whose text is not a non-empty string: the   *)
(* text of every stored tag is a string of at least one character, and a   *)
(* run that met a text that is not a string has ended with the schema      *)
(* error and exit status 1.                                                *)
(***************************************************************************)
C20_TagTextNonEmptyString ==
    /\ \A k \in 1..Len(tag_map) : Len(tag_map[k].text) > 0
    /\ (\E i \in 1..Len(log) : log[i].kind = "tag_text_type") =>
          pc = "exit" /\ exit_status = 1

(***************************************************************************)
(* C21: when add_file_contents has processed an entry with a names list of *)
(* N names, the last N rules of the store are one rule per name, in list   *)
(* order, each with the entry's file, chapter and field values; and no two *)
(* rules of the store share an instances list or a tag_refs list, so that  *)
(* a change of one rule's list cannot show in another rule.                *)
(***************************************************************************)
\* the entry of the current iteration has a names list, and the iteration ended
FannedOut == pc = "load_defs" /\ cur_data.name = Absent /\ cur_data.names.t = "list"

\* the fields of a rule other than its name
SharedFields(rule) ==
    <<rule.def_filename, rule.chapter_name, rule.summary, rule.note, rule.clarification_link,
      rule.clarification_text, rule.description, rule.kind, rule.impldef, rule.impldef_cat,
      rule.instances, rule.tag_refs>>

\* every address held by a rule of the store
ListAddresses ==
    { rule_lists[k].instances : k \in 1..Len(rule_lists) }
    \cup { rule_lists[k].tag_refs : k \in 1..Len(rule_lists) }

C21_FanOut ==
    /\ FannedOut =>
          LET names == cur_data.names.l
              N == Len(names)
              base == Len(norm_rule_defs) - N
          IN  /\ base >= 0
              /\ \A i \in 1..N :
                    LET rule == norm_rule_defs[base + i]
                    IN  /\ rule.name = names[i].s
                        /\ rule.def_filename = cur_def_filename
                        /\ Str(rule.chapter_name) = ChapterNameOf(cur_def_filename)
                        /\ rule.summary = Get(cur_data.summary)
                        /\ rule.kind = Get(cur_data.kind)
                        /\ rule.instances = (IF cur_data.instances = Absent THEN <<>>
                                             ELSE cur_data.instances.l)
                        /\ Len(rule.tag_refs) =
                              (IF cur_data.tag = Absent THEN 0 ELSE 1)
                              + (IF cur_data.tags = Absent THEN 0 ELSE Len(cur_data.tags.l))
                        /\ SharedFields(rule) = SharedFields(norm_rule_defs[base + 1])
    /\ Len(rule_lists) = Len(norm_rule_defs)
    /\ Cardinality(ListAddresses) = 2 * Len(norm_rule_defs)
    /\ \A k \in 1..Len(rule_lists) :
          /\ heap[rule_lists[k].instances] = norm_rule_defs[k].instances
          /\ heap[rule_lists[k].tag_refs] = norm_rule_defs[k].tag_refs

\* an entry with three names, instances and tag references was fanned out
C21_Witness ==
    /\ FannedOut
    /\ Len(cur_data.names.l) = 3
    /\ Len(norm_rule_defs) = 3
    /\ Len(norm_rule_defs[3].instances) = 2
    /\ Len(norm_rule_defs[3].tag_refs) = 2
    /\ norm_rule_defs[1].name # norm_rule_defs[3].name

(***************************************************************************)
(* Properties of detect_tag_changes.py.                                    *)
(***************************************************************************)
\* detect_changes has returned
Detected ==
    \/ detect_pc \in {"display_changes", "update_tags_file", "sys_exit"}
    \/ \E i \in 1..Len(detect_output) :
          detect_output[i] \in {"Tag Changes Report", "No changes detected."}

\* open() or json.dump failed in update_tags_file
IoFailed ==
    \E i \in 1..Len(detect_output) : detect_output[i] = "Error: Failed to update (OSError)"

\* what a text of the model's tag files reads as, markup and whitespace aside
NormalForm(text) ==
    IF text \in { <<"a"," ","b">>, <<" ","*","a","*"," "," ","b">> }
    THEN <<"a"," ","b">> ELSE <<"a"," ","c">>

(***************************************************************************)
(* C22: detect_changes puts a name in added iff it is in current and not   *)
(* in reference (with the current text), in deleted iff it is in reference *)
(* and not in current (with the reference text), in modified iff it is in  *)
(* both and the normalized texts differ; the three sets are pairwise       *)
(* disjoint, total_changes is the sum of their sizes, any_changes holds    *)
(* iff the sum is positive, and equal tag sets give no changes.            *)
(***************************************************************************)
C22_Classification ==
    Detected =>
        LET added == DOMAIN changes.added
            deleted == DOMAIN changes.deleted
            modified == DOMAIN changes.modified
            sum == Cardinality(added) + Cardinality(deleted) + Cardinality(modified)
        IN  /\ added = DOMAIN current_tags \ DOMAIN reference_tags
            /\ \A n \in added : changes.added[n] = current_tags[n]
            /\ deleted = DOMAIN reference_tags \ DOMAIN current_tags
            /\ \A n \in deleted : changes.deleted[n] = reference_tags[n]
            /\ modified = { n \in DOMAIN reference_tags \cap DOMAIN current_tags :
                              NormalForm(reference_tags[n]) # NormalForm(current_tags[n]) }
            /\ added \cap deleted = {} /\ added \cap modified = {} /\ deleted \cap modified = {}
            /\ total_changes(changes) = sum
            /\ any_changes(changes) <=> sum > 0
            /\ reference_tags = current_tags => sum = 0

\* a tag was added, and a tag whose texts differ in markup and whitespace
\* only is not modified
C22_Witness ==
    /\ Detected
    /\ DOMAIN changes.added # {}
    /\ \E n \in DOMAIN reference_tags \cap DOMAIN current_tags :
          reference_tags[n] # current_tags[n] /\ n \notin DOMAIN changes.modified

(***************************************************************************)
(* C23: a run that compared the files and met no I/O failure exits with 1  *)
(* when a tag was modified or deleted and with 0 otherwise, with and       *)
(* without --update-reference.                                             *)
(***************************************************************************)
C23_ExitStatus ==
    (detect_pc = "exit" /\ Detected /\ ~IoFailed) =>
        detect_status = (IF DOMAIN changes.modified # {} \/ DOMAIN changes.deleted # {}
                         THEN 1 ELSE 0)

(***************************************************************************)
(* C24: update_tags_file only adds.  After a successful update the         *)
(* reference file holds the reference tags with their texts and the added  *)
(* tags with the current texts, and nothing else, and a new comparison     *)
(* with the same current tags reports no addition and the same deleted and *)
(* modified tags; without additions the file is not touched, and no other  *)
(* step of the tool writes the file.                                       *)
(***************************************************************************)
Updated == \E i \in 1..Len(detect_output) : detect_output[i] = "Updated"

C24_AfterUpdate ==
    Updated =>
        LET again == detect_changes(reference_file.tags, current_tags)
        IN  /\ reference_file.kind = "object" /\ reference_file.has_tags
            /\ DOMAIN reference_file.tags = DOMAIN reference_tags \cup DOMAIN changes.added
            /\ \A n \in DOMAIN reference_tags : reference_file.tags[n] = reference_tags[n]
            /\ \A n \in DOMAIN changes.added : reference_file.tags[n] = current_tags[n]
            /\ DOMAIN again.added = {}
            /\ again.deleted = changes.deleted
            /\ again.modified = changes.modified

C24_OnlyAdds ==
    /\ []C24_AfterUpdate
    /\ [][ (detect_pc # "update_tags_file" \/ DOMAIN changes.added = {})
               => reference_file' = reference_file ]_vars

\* additions were merged into a reference that also has a modified tag
C24_Witness ==
    /\ Updated
    /\ DOMAIN changes.added # {}
    /\ DOMAIN changes.modified # {}
    /\ \A n \in DOMAIN changes.modified : reference_file.tags[n] = reference_tags[n]

(***************************************************************************)
(* C30: when the reference file has no "tags" key, it is loaded as an      *)
(* empty tag set, every current tag is added, the exit status without -u   *)
(* is 0, and a run with --update-reference that meets no I/O failure       *)
(* merges the additions into the file and does not end in an error.        *)
(***************************************************************************)
C30_NoTagsKey ==
    /\ (Detected /\ reference_file.kind = "object" /\ ~reference_file.has_tags) =>
          /\ reference_tags = <<>>
          /\ changes.added = current_tags
          /\ (detect_pc = "exit" /\ ~update_reference) => detect_status = 0
    \* a run with --update-reference whose reference was loaded as empty
    /\ (detect_pc = "exit" /\ Detected /\ update_reference /\ ~IoFailed
            /\ reference_tags = <<>> /\ DOMAIN current_tags # {}) =>
          /\ detect_status = 0
          /\ Updated
          /\ reference_file.has_tags
          /\ reference_file.tags = current_tags

(***************************************************************************)
(* Properties of the order of the checks of NormativeRuleDef.__init__.     *)
(***************************************************************************)
\* the field invariants an entry violates, by their position in the stated order
TypeViolation(data) ==
    \/ Get(data.summary).t \notin {"NoneType", "str"}
    \/ Get(data.kind).t \notin {"NoneType", "str"}
    \/ GetDefault(data.impl_def_behavior, Bool(FALSE)).t # "bool"
    \/ Get(data.impl_def_category).t \notin {"NoneType", "str"}
KindEnumViolation(data) ==
    data.kind.t = "str" /\ data.kind.s \notin KINDS
CategoryRequiresViolation(data) ==
    IsSet(data.impl_def_category) /\ data.impl_def_behavior # Bool(TRUE)
CategoryEnumViolation(data) ==
    data.impl_def_category.t = "str" /\ data.impl_def_category.s \notin IMPLDEF_CATEGORIES
InstancesRequireViolation(data) ==
    ~IsSet(data.kind) /\ (IsSet(data.instance) \/ IsSet(data.instances))
NamePatternViolation(data) ==
    data.name.t = "str"
    /\ ~(IF data.impl_def_behavior = Bool(TRUE) THEN IMPLDEF_NAME_PATTERN(data.name.s)
                                                ELSE NORM_RULE_NAME_PATTERN(data.name.s))
\* the kinds of message that report each of them
TypeKinds == {"summary_type", "note_type", "clarification_link_type", "clarification_text_type",
              "description_type", "kind_type", "impldef_type", "impldef_cat_type"}
NameKinds == {"name_pattern_impldef", "name_pattern_norm_rule"}
\* the messages the stated order allows for an entry
StatedFailures(data) ==
    IF TypeViolation(data) THEN TypeKinds
    ELSE IF KindEnumViolation(data) THEN {"kind_enum"}
    ELSE IF CategoryRequiresViolation(data) THEN {"impldef_cat_without_impldef"}
    ELSE IF CategoryEnumViolation(data) THEN {"impldef_cat_enum"}
    ELSE IF InstancesRequireViolation(data) THEN {"instances_without_kind"}
    ELSE IF NamePatternViolation(data) THEN NameKinds
    ELSE {}
\* the run ended in the construction of a rule from cur_data
ConstructionFailed ==
    /\ pc = "exit"
    /\ log # <<>>
    /\ Last(log).kind \in TypeKinds \cup NameKinds
            \cup {"kind_enum", "impldef_cat_without_impldef", "impldef_cat_enum",
                  "instances_without_kind"}

\* C25: when the construction of a rule fails, the failure reported is the
\* earliest that the entry violates in the order: type checks, kind enum,
\* impl-def-category requires impl-def-behavior, impl-def-category enum,
\* instances require kind, name pattern.
C25_FailFastOrder ==
    ConstructionFailed => Last(log).kind \in StatedFailures(cur_data)

(***************************************************************************)
(* Properties of the instances of a rule.                                  *)
(***************************************************************************)
\* the last step stored a rule built from cur_data
StoredFromCurData ==
    /\ pc = "load_defs"
    /\ norm_rule_defs # <<>>
    /\ cur_data.name = Str(Last(norm_rule_defs).name)
\* the values the author supplied, one per element
SuppliedInstances(data) ==
    (IF IsSet(data.instance) THEN <<data.instance>> ELSE <<>>)
    \o (IF data.instances.t = "list" THEN data.instances.l ELSE <<>>)

\* C26: a rule is stored only if its "instance" is a string (or not given)
\* and its "instances" is a list of strings (or not given), and the stored
\* instances are the supplied values, one element each.
C26_InstancesTypeChecked ==
    StoredFromCurData =>
        /\ Get(cur_data.instance).t \in {"NoneType", "str"}
        /\ Get(cur_data.instances).t \in {"NoneType", "list"}
        /\ \A k \in 1..Len(SuppliedInstances(cur_data)) : SuppliedInstances(cur_data)[k].t = "str"
        /\ Last(norm_rule_defs).instances = SuppliedInstances(cur_data)

(***************************************************************************)
(* Properties of the tag references of a rule.                             *)
(***************************************************************************)
\* the elements of "tags", in list order
TagsElements(data) == IF data.tags.t = "list" THEN data.tags.l ELSE <<>>
\* a plain name, or a record with a name and with a boolean context or none
IsPlainName(e) == e.t = "str"
IsRecord(e) == e.t = "dict" /\ e.l[1].t = "str" /\ e.l[2].t \in {"absent", "bool"}
\* a record without a name, or an element that is neither a name nor a record
IsRejected(e) ==
    \/ e.t = "dict" /\ ~IsSet(e.l[1])
    \/ e.t \notin {"str", "dict"}
\* the reference an accepted element stands for
ReferenceOf(e) ==
    IF IsPlainName(e) THEN [name |-> e.s, context |-> FALSE]
    ELSE [name |-> e.l[1].s, context |-> (e.l[2].t = "bool" /\ e.l[2].b)]
\* the references of an entry whose elements are all accepted
ReferencesOf(data) ==
    (IF data.tag.t = "str" THEN <<[name |-> data.tag.s, context |-> FALSE]>> ELSE <<>>)
    \o [k \in 1..Len(TagsElements(data)) |-> ReferenceOf(TagsElements(data)[k])]

\* C27: a stored rule's tag references are the shorthand "tag" first (not
\* context), then one reference per element of "tags" in list order, with
\* the context of a record and without context otherwise; an entry with
\* neither key has no reference; an entry with a record without name or with
\* an element that is neither a name nor a record ends the run with status 1
\* and stores no rule.
C27_TagRefParsing ==
    /\ [](StoredFromCurData =>
          /\ \A k \in 1..Len(TagsElements(cur_data)) :
                IsPlainName(TagsElements(cur_data)[k]) \/ IsRecord(TagsElements(cur_data)[k])
          /\ Last(norm_rule_defs).tag_refs = ReferencesOf(cur_data)
          /\ (~IsSet(cur_data.tag) /\ ~IsSet(cur_data.tags)) =>
                Last(norm_rule_defs).tag_refs = <<>>)
    /\ [][(\E k \in 1..Len(TagsElements(cur_data')) : IsRejected(TagsElements(cur_data')[k])) =>
            /\ pc' = "exit"
            /\ exit_status' = 1
            /\ norm_rule_defs' = norm_rule_defs]_vars

\* a rule was stored with the shorthand, then a plain name, then a record with context
C27_Witness ==
    /\ StoredFromCurData
    /\ Len(Last(norm_rule_defs).tag_refs) = 3
    /\ Last(norm_rule_defs).tag_refs[1] = [name |-> TagA, context |-> FALSE]
    /\ Last(norm_rule_defs).tag_refs[2] = [name |-> TagB, context |-> FALSE]
    /\ Last(norm_rule_defs).tag_refs[3] = [name |-> TagC, context |-> TRUE]

(***************************************************************************)
(* Properties of rule names and the prefix of tag names.                   *)
(***************************************************************************)
\* validate_defs_and_tags reported a rule name with the prefix
BadNameReported == \E k \in 1..Len(log) : log[k].kind \in {"bad_name", "bad_name_total"}

\* C28: no stored rule has a name that starts with "norm:", so when
\* validate_defs_and_tags has run its tally of such names is 0, it has
\* reported none, and the gate fails only on the other two tallies.
C28_NoReservedPrefix ==
    /\ ReservedNames = {}
    /\ ValidationRan =>
          /\ bad_norm_rule_name_cnt = 0
          /\ ~BadNameReported
          /\ GateExited => (missing_tag_cnt > 0 \/ (unref_cnt > 0 /\ ~warn_if_tags_no_rules))

\* validation ran over the stored rule norm_a, which has no ':', and passed
C28_Witness ==
    /\ ValidationRan
    /\ norm_rule_defs # <<>>
    /\ norm_rule_defs[1].name = <<"n","o","r","m","_","a">>
    /\ pc = "output"

(***************************************************************************)
(* Properties of the output file when the export fails.                    *)
(***************************************************************************)
\* the run ended in a fatal error of the export: a referenced tag whose file
\* has no URL mapping
ExportFailed ==
    /\ pc = "exit"
    /\ exit_status = 1
    /\ log # <<>>
    /\ Last(log).kind = "no_url_mapping"

\* C29: when the export ends in a fatal error, in JSON mode and in HTML mode,
\* the output file has not been opened and nothing has been written to it.
C29_OutputAtomicity ==
    ExportFailed =>
        /\ ~output_file.opened
        /\ output_file.rows = <<>>
        /\ output_file.normative_rules = <<>>

====
